---- MODULE Spec2Model ----
(***************************************************************************)
(* Model of senlin/engine/action.py: cluster actions executed by           *)
(* concurrent workers against one cluster.                                 *)
(*                                                                         *)
(* Every worker runs ClusterAction.execute() of one action.  A handler     *)
(* (do_create, do_update, do_delete, do_scale_down, do_attach_policy) is   *)
(* cut into steps at its calls to the persistence layer, the scheduler and *)
(* the dispatcher, so that the steps of different workers interleave.      *)
(* The model follows the control flow of the handlers; inside them Python's *)
(* argument binding and the lookup of class attributes are taken to        *)
(* succeed, while a value that is missing at run time (the answer of       *)
(* action_start_work_on in _cancel_update) is followed to the exception.   *)
(* The constructors and the methods of the action object (store,           *)
(* set_status, get_status, to_dict, from_dict) are modelled statement by   *)
(* statement, attribute reads included.  The collaborators that are not    *)
(* part of action.py (db_api, scheduler, dispatcher, cluster, policies)    *)
(* are modelled by their documented contract.                              *)
(***************************************************************************)
EXTENDS Integers, Sequences, FiniteSets, TLC

(* ------------------------------ bounds --------------------------------- *)
NumActions == 2     \* actions (workers) that may run against the cluster
MaxSize == 2        \* largest desired size / initial membership
MaxNodes == 3       \* nodes ever stored for the cluster
MaxCount == 2       \* largest removal count a scaling policy answers
MaxEvals == 4       \* policy evaluations of one check that the history records

Actions == 1..NumActions
NoAction == 0
NoId == <<0, 0>>    \* Action.id of an action that was never stored ('')

(* ------------------------- constants of the code ----------------------- *)
RES_OK == "OK"
RES_ERROR == "ERROR"
RES_RETRY == "RETRY"
RES_CANCEL == "CANCEL"
RES_TIMEOUT == "TIMEOUT"
RETURNS == {RES_OK, RES_ERROR, RES_RETRY, RES_CANCEL, RES_TIMEOUT}
RAISED == "RAISED"  \* the handler left by an exception, no outcome code
PolicyNotSpecified == "PolicyNotSpecified"  \* exceptions of do_attach_policy
PolicyExists == "PolicyExists"
NONE == "NONE"

INIT == "INIT"
READY == "READY"

CLUSTER_CREATE == "CLUSTER_CREATE"
CLUSTER_DELETE == "CLUSTER_DELETE"
CLUSTER_UPDATE == "CLUSTER_UPDATE"
CLUSTER_SCALE_UP == "CLUSTER_SCALE_UP"
CLUSTER_SCALE_DOWN == "CLUSTER_SCALE_DOWN"
CLUSTER_ATTACH_POLICY == "CLUSTER_ATTACH_POLICY"
ClusterVerbs == {CLUSTER_CREATE, CLUSTER_DELETE, CLUSTER_UPDATE, CLUSTER_SCALE_UP,
                 CLUSTER_SCALE_DOWN, CLUSTER_ATTACH_POLICY}

CHECK_SUCCEED == "CHECK_OK"
CHECK_FAIL == "CHECK_FAIL"
CHECK_RETRY == "CHECK_RETRY"

(* Policies known to the policy collaborator: id -> type and TARGET (a list of
   (phase, verb) pairs: the health policy is consulted in both phases). *)
Policies == 1..5
NoPolicy == 0
PolicyType(p) == CASE p = 1 -> "ScalingPolicy"
                   [] p = 2 -> "DeletionPolicy"
                   [] p = 3 -> "LoadBalancingPolicy"
                   [] p = 4 -> "ScalingPolicy"
                   [] OTHER -> "HealthPolicy"
PolicyTarget(p) == CASE p = 3 -> {<<"AFTER", CLUSTER_SCALE_DOWN>>}
                     [] p = 5 -> {<<"BEFORE", CLUSTER_SCALE_DOWN>>, <<"AFTER", CLUSTER_SCALE_DOWN>>}
                     [] OTHER -> {<<"BEFORE", CLUSTER_SCALE_DOWN>>}

VARIABLES
  lock,        \* cluster lock: the holding action id, NoAction when free
  cluster,     \* the persisted cluster record
  bindings,    \* persisted cluster-policy associations, in creation order
  act,         \* per action: the worker's position and local variables
  cancelled,   \* per action: the scheduler's cancellation flag
  dispatched,  \* action ids the dispatcher was notified of, in order
  made,        \* the last call of an action constructor and its outcome
  obj          \* an action object, its database record and the last call on it

vars == <<lock, cluster, bindings, act, cancelled, dispatched, made, obj>>

(* ------------------------------ helpers -------------------------------- *)
Range(s) == {s[i] : i \in 1..Len(s)}
Min(x, y) == IF x < y THEN x ELSE y
RemoveAt(s, i) == [j \in 1..(Len(s) - 1) |-> IF j < i THEN s[j] ELSE s[j + 1]]
RECURSIVE Without(_, _)
Without(s, S) == IF s = <<>> THEN <<>>
                 ELSE IF Head(s) \in S THEN Without(Tail(s), S)
                 ELSE <<Head(s)>> \o Without(Tail(s), S)

EmptyData == [result |-> CHECK_SUCCEED, count |-> 0, candidates |-> <<>>]
NoWrite == [status |-> NONE, reason |-> ""]

InitAct == [pc |-> "idle", verb |-> NONE, result |-> NONE, size |-> 0,
            children |-> <<>>, todo |-> <<>>, sent |-> 0,
            data |-> EmptyData, queue |-> <<>>, phase |-> NONE, ret |-> NONE,
            policy |-> NoPolicy, enabled |-> TRUE,
            nodes |-> <<>>, asked |-> NoPolicy,
            plist |-> <<>>, evals |-> <<>>, vetoed |-> FALSE,
            contested |-> FALSE, checked |-> FALSE, polled |-> FALSE,
            timedout |-> FALSE, late |-> FALSE, restored |-> <<>>,
            took |-> 0, freed |-> 0, stray |-> FALSE,
            wrote |-> FALSE, unlocked |-> FALSE, last |-> NoWrite]

(* db_api.cluster_lock_create(cluster_id, action_id): atomic; returns holder. *)
cluster_lock_create(holder, a) == IF holder = NoAction THEN a ELSE holder

(* db_api.cluster_lock_release(cluster_id, action_id): frees the holder's lock. *)
cluster_lock_release(holder, a) == IF holder = a THEN NoAction ELSE holder

(* cluster.set_status(status, reason): reason "" stands for no reason given. *)
cluster_set_status(c, status, reason) ==
  [c EXCEPT !.status = status, !.reason = IF reason = "" THEN @ ELSE reason]

(* History of an action's own writes to the cluster (status, membership,
   durable delete): that it wrote, whether it ever wrote without holding the
   lock, and the last status and reason it set. *)
Wrote(r, kind, status, reason, held) ==
  [r EXCEPT !.wrote = TRUE, !.unlocked = @ \/ ~held,
            !.last = IF kind = "members" THEN @ ELSE [status |-> status, reason |-> reason]]

(* History of an action's calls on the cluster lock: the acquisitions that
   succeeded, the calls of cluster_lock_release, and whether one of these
   calls was made while the action did not hold the lock. *)
Acquired(r) == [r EXCEPT !.took = @ + 1]
Released(r, held) == [r EXCEPT !.freed = @ + 1, !.stray = @ \/ ~held]

(* scheduler.action_timeout(self) answered True: the deadline has elapsed. *)
TimedOut(r) == [r EXCEPT !.timedout = TRUE]

(* scheduler.action_cancelled(self) answered True; late tells whether the
   deadline had elapsed as well at that iteration. *)
SawCancel(r, late) == [r EXCEPT !.late = late]

(* The handler returns: its local variables are gone, the history (what it
   sent, the policy it was asked to attach, whether it was contested, polled,
   checked, wrote, whether its BEFORE check was vetoed) stays. *)
Return(r, code) ==
  [r EXCEPT !.pc = "done", !.result = code, !.size = 0, !.children = <<>>, !.todo = <<>>,
            !.nodes = <<>>, !.data = EmptyData, !.queue = <<>>, !.phase = NONE, !.ret = NONE,
            !.policy = NoPolicy, !.enabled = TRUE, !.plist = <<>>, !.evals = <<>>]

(* A child action object: Action.__init__ gives id '' and status INIT. *)
NewChild(verb, target) ==
  [id |-> NoId, verb |-> verb, target |-> target, status |-> INIT,
   stored |-> FALSE, dep |-> FALSE, db |-> NONE]
(* Action.store: the record gets an identity; db is the status column of the
   record written, NONE while there is no record. *)
Stored(child, id) == [child EXCEPT !.id = id, !.stored = TRUE, !.db = child.status]
(* db_api.action_add_dependency(child, parent) *)
Linked(child) == [child EXCEPT !.dep = TRUE]
(* Action.set_status: only SUCCEEDED/FAILED/CANCELLED go to the database. *)
set_status(child, status) ==
  [child EXCEPT !.status = status,
                !.db = IF child.stored /\ status \in {"SUCCEEDED", "FAILED", "CANCELLED"}
                         THEN status ELSE @]

(* scheduler.cancel_action(context, action_id) *)
cancel_action(flags, a) == IF a \in DOMAIN flags THEN [flags EXCEPT ![a] = TRUE] ELSE flags

(* --------------------------- construction ------------------------------ *)
(* A verb is the tuple of the words that '_' separates in its name, so that
   action.split('_')[0] is its first word. *)
None == "None"
ClusterAction_ACTIONS ==
  {<<"CLUSTER", "CREATE">>, <<"CLUSTER", "DELETE">>, <<"CLUSTER", "UPDATE">>,
   <<"CLUSTER", "ADD", "NODES">>, <<"CLUSTER", "DEL", "NODES">>,
   <<"CLUSTER", "SCALE", "UP">>, <<"CLUSTER", "SCALE", "DOWN">>,
   <<"CLUSTER", "ATTACH", "POLICY">>, <<"CLUSTER", "DETACH", "POLICY">>}
NodeAction_ACTIONS ==
  {<<"NODE", "CREATE">>, <<"NODE", "DELETE">>, <<"NODE", "UPDATE">>,
   <<"NODE", "JOIN", "CLUSTER">>, <<"NODE", "LEAVE", "CLUSTER">>}
PolicyAction_ACTIONS ==
  {<<"POLICY", "ENABLE">>, <<"POLICY", "DISABLE">>, <<"POLICY", "UPDATE">>}
CustomAction_ACTIONS == {<<"ACTION", "EXECUTE">>}

ActionsOf(class) == CASE class = "ClusterAction" -> ClusterAction_ACTIONS
                    [] class = "NodeAction" -> NodeAction_ACTIONS
                    [] class = "PolicyAction" -> PolicyAction_ACTIONS
                    [] OTHER -> CustomAction_ACTIONS

(* Action.__new__: the class of the object that is created. *)
Action_new(cls, action) ==
  IF cls # "Action" THEN cls
  ELSE LET target_type == Head(action) IN
       CASE target_type = "CLUSTER" -> "ClusterAction"
         [] target_type = "NODE" -> "NodeAction"
         [] target_type = "POLICY" -> "PolicyAction"
         [] OTHER -> "CustomAction"

(* The outcome of a constructor call: the exception raised (NONE when the
   object was created) and the target of the object (None when there is none). *)
Outcome(cls, action, kwargs, class, raised) ==
  [cls |-> cls, action |-> action, kwargs |-> kwargs, class |-> class, raised |-> raised,
   target |-> IF raised = NONE THEN kwargs.target ELSE None]

(* Action_init that never checks the target. *)
Action_init_any_target(class, action, kwargs) ==
  IF action \notin ActionsOf(class) THEN "AttributeError" ELSE NONE

(* Action.__init__, lines 76-89.  The arguments of ActionNotSupported read
   self.target, which is assigned only at line 87: the unsupported verb ends
   in AttributeError. *)
Action_init(class, action, kwargs) ==
  IF action \notin ActionsOf(class) THEN "AttributeError"
  ELSE IF kwargs.target = None THEN "ActionMissingTarget"
  ELSE NONE

(* PolicyAction_init that never checks the policy id. *)
PolicyAction_init_no_policy(class, action, kwargs) ==
  LET raised == Action_init(class, action, kwargs) IN
  IF raised # NONE THEN raised
  ELSE IF kwargs.cluster_id = None THEN "ActionMissingTarget"
  ELSE NONE

(* PolicyAction.__init__, lines 847-855. *)
PolicyAction_init(class, action, kwargs) ==
  LET raised == Action_init(class, action, kwargs) IN
  IF raised # NONE THEN raised
  ELSE IF kwargs.cluster_id = None THEN "ActionMissingTarget"
  ELSE IF kwargs.policy_id = None THEN "ActionMissingPolicy"
  ELSE NONE

(* cls(context, action, **kwargs): __new__, then __init__ of the class created. *)
Construct(cls, action, kwargs) ==
  LET class == Action_new(cls, action) IN
  Outcome(cls, action, kwargs, class,
          IF class = "PolicyAction" THEN PolicyAction_init(class, action, kwargs)
                                    ELSE Action_init(class, action, kwargs))

NoCall == [cls |-> NONE, action |-> <<>>, kwargs |-> [target |-> None, cluster_id |-> None,
           policy_id |-> None], class |-> NONE, raised |-> NONE, target |-> None]

(* --------------------------- the action object ------------------------- *)
WAITING == "WAITING"
RUNNING == "RUNNING"
SUCCEEDED == "SUCCEEDED"
FAILED == "FAILED"
CANCELED == "CANCELLED"   \* the class attribute is CANCELED, its value 'CANCELLED'
STATUSES == {INIT, WAITING, READY, RUNNING, SUCCEEDED, FAILED, CANCELED}

(* kwargs.get(key, default) *)
kwargs_get(kwargs, key, default) == IF key \in DOMAIN kwargs THEN kwargs[key] ELSE default

(* context.to_dict(): a RequestContext has the method, the map it returns
   (a dict) has not. *)
context_to_dict(context) == IF context = "RequestContext" THEN "dict" ELSE "AttributeError"

NoSelf == [class |-> NONE, action |-> <<>>, context |-> None, id |-> "", target |-> None,
           status |-> NONE, inputs |-> {}, outputs |-> {}]

(* Action.__init__, lines 76-130, with the attributes it assigns: the outcome
   is the exception raised (NONE when there is none) and the object. *)
Action_init_self(class, context, action, kwargs) ==
  IF action \notin ActionsOf(class) THEN [raised |-> "AttributeError", self |-> NoSelf]
  ELSE IF context_to_dict(context) = "AttributeError"
    THEN [raised |-> "AttributeError", self |-> NoSelf]
  ELSE IF kwargs_get(kwargs, "target", None) = None
    THEN [raised |-> "ActionMissingTarget", self |-> NoSelf]
  ELSE [raised |-> NONE,
        self |-> [class |-> class, action |-> action, context |-> "RequestContext",
                  id |-> kwargs_get(kwargs, "id", ""),
                  target |-> kwargs.target,
                  status |-> kwargs_get(kwargs, "status", INIT),
                  inputs |-> kwargs_get(kwargs, "inputs", {}),
                  outputs |-> kwargs_get(kwargs, "outputs", {})]]

(* PolicyAction.__init__, lines 847-855, on top of Action.__init__. *)
PolicyAction_init_self(class, context, action, kwargs) ==
  LET made_ == Action_init_self(class, context, action, kwargs) IN
  IF made_.raised # NONE THEN made_
  ELSE IF kwargs_get(kwargs, "cluster_id", None) = None
    THEN [raised |-> "ActionMissingTarget", self |-> NoSelf]
  ELSE IF kwargs_get(kwargs, "policy_id", None) = None
    THEN [raised |-> "ActionMissingPolicy", self |-> NoSelf]
  ELSE made_

(* cls(context, action, **kwargs) *)
Construct_self(cls, context, action, kwargs) ==
  LET class == Action_new(cls, action) IN
  IF class = "PolicyAction" THEN PolicyAction_init_self(class, context, action, kwargs)
                            ELSE Action_init_self(class, context, action, kwargs)

(* Action.to_dict, lines 310-332: the keys that the constructor reads back
   into id, target, status, inputs and outputs, the verb and the context. *)
to_dict(self) ==
  [id |-> self.id, action |-> self.action, context |-> context_to_dict(self.context),
   target |-> self.target, status |-> self.status,
   inputs |-> self.inputs, outputs |-> self.outputs]

(* from_dict(cls, context=None, **kwargs) called with the positional
   arguments args and the map m as keyword arguments: Python binds the
   parameter context, then the body calls cls(context=context, **kwargs),
   which binds the parameter action of the constructor. *)
from_dict(cls, args, m) ==
  IF Len(args) > 0 /\ "context" \in DOMAIN m
    THEN [raised |-> "TypeError", self |-> NoSelf]
  ELSE LET context == IF Len(args) > 0 THEN args[1] ELSE kwargs_get(m, "context", None)
           kwargs == [k \in DOMAIN m \ {"context"} |-> m[k]]
       IN IF "action" \notin DOMAIN kwargs
            THEN [raised |-> "TypeError", self |-> NoSelf]
            ELSE Construct_self(cls, context, kwargs.action,
                                [k \in DOMAIN kwargs \ {"action"} |-> kwargs[k]])

NoObject == [self |-> NoSelf, db |-> NONE, call |-> NONE, arg |-> NONE, raised |-> NONE,
             ret |-> NONE, asked |-> NONE, foreign |-> FALSE, copy |-> NoSelf,
             node |-> NONE, op |-> NONE, res |-> NONE]


(* ------------------------------- Init ---------------------------------- *)
InitClusters ==
  {[status |-> INIT, reason |-> "", exists |-> TRUE, members |-> <<>>,
    nnodes |-> 0, size |-> n, rt |-> <<>>] : n \in 0..MaxSize}
  \cup
  {[status |-> "ACTIVE", reason |-> "Cluster creation completed", exists |-> TRUE,
    members |-> [i \in 1..n |-> i], nnodes |-> n, size |-> n, rt |-> <<>>] : n \in 1..MaxSize}

InitBindings == {<<>>, <<1, 2, 3>>}

(* The associations of the policies b, all enabled. *)
Bound(b) == [i \in 1..Len(b) |-> [policy_id |-> b[i], enabled |-> TRUE]]

(* The cluster is loaded with its runtime policy list (cluster.rt.policies). *)
Init ==
  /\ lock = NoAction
  /\ \E c \in InitClusters, b \in InitBindings :
       /\ cluster = [c EXCEPT !.rt = b]
       /\ bindings = Bound(b)
  /\ act = [a \in Actions |-> InitAct]
  /\ cancelled = [a \in Actions |-> FALSE]
  /\ dispatched = <<>>
  /\ made = NoCall
  /\ obj = NoObject

(* ----------------------------- execute --------------------------------- *)
FirstPc(v) == CASE v = CLUSTER_CREATE -> "create_lock"
                [] v = CLUSTER_UPDATE -> "update_lock"
                [] v = CLUSTER_DELETE -> "delete_mark"
                [] v = CLUSTER_SCALE_DOWN -> "scale_lock"
                [] v = CLUSTER_ATTACH_POLICY -> "attach_check"
                [] OTHER -> "done"

(* execute that dispatches without looking the cluster up. *)
execute_no_lookup(a, v) ==
  /\ act[a].pc = "idle"
  /\ IF a = 1 THEN TRUE ELSE act[a - 1].pc # "idle"
  /\ v = CLUSTER_CREATE => cluster.nnodes + cluster.size <= MaxNodes
  /\ act' = [act EXCEPT ![a] =
               [@ EXCEPT !.verb = v, !.size = cluster.size, !.pc = FirstPc(v),
                         !.result = IF FirstPc(v) = "done" THEN RES_OK ELSE NONE]]
  /\ UNCHANGED <<lock, cluster, bindings, cancelled, dispatched, made, obj>>

(* ClusterAction.execute: look the cluster up and dispatch on the verb. *)
execute(a, v) ==
  /\ act[a].pc = "idle"
  /\ IF a = 1 THEN TRUE ELSE act[a - 1].pc # "idle"
  /\ v = CLUSTER_CREATE => cluster.nnodes + cluster.size <= MaxNodes
  /\ IF ~cluster.exists
       THEN act' = [act EXCEPT ![a] = Return([@ EXCEPT !.verb = v], RES_ERROR)]
       ELSE act' = [act EXCEPT ![a] =
                      [@ EXCEPT !.verb = v, !.size = cluster.size, !.pc = FirstPc(v),
                                !.result = IF FirstPc(v) = "done" THEN RES_OK ELSE NONE]]
  /\ UNCHANGED <<lock, cluster, bindings, cancelled, dispatched, made, obj>>

(* ----------------------------- do_create ------------------------------- *)
(* do_create_lock asking the holder of the lock to cancel, as do_delete does. *)
do_create_lock_preempt(a, res) ==
  /\ act[a].pc = "create_lock"
  /\ LET got == cluster_lock_create(lock, a) IN
     IF got # a
       THEN /\ act' = [act EXCEPT ![a] = Return([@ EXCEPT !.contested = TRUE], RAISED)]
            /\ cancelled' = cancel_action(cancelled, got)
            /\ UNCHANGED <<lock, cluster>>
       ELSE IF ~res
         THEN /\ cluster' = cluster_set_status(cluster, "ERROR", "Cluster creation failed")
              /\ lock' = cluster_lock_release(got, a)
              /\ act' = [act EXCEPT ![a] =
                   Released(Acquired(Return(Wrote(@, "status", "ERROR", "Cluster creation failed", got = a), RES_ERROR)),
                            got = a)]
              /\ UNCHANGED cancelled
         ELSE /\ lock' = got
              /\ act' = [act EXCEPT ![a] = Acquired([@ EXCEPT !.pc = "create_spawn"])]
              /\ UNCHANGED <<cluster, cancelled>>
  /\ UNCHANGED <<bindings, dispatched, made, obj>>

(* Lines 358-375: lock, provision; res is cluster.do_create()'s answer. *)
do_create_lock(a, res) ==
  /\ act[a].pc = "create_lock"
  /\ LET got == cluster_lock_create(lock, a) IN
     IF got # a
       THEN /\ act' = [act EXCEPT ![a] = Return([@ EXCEPT !.contested = TRUE], RAISED)]
            /\ UNCHANGED <<lock, cluster>>
       ELSE IF ~res
         THEN /\ cluster' = cluster_set_status(cluster, "ERROR", "Cluster creation failed")
              /\ lock' = cluster_lock_release(got, a)
              /\ act' = [act EXCEPT ![a] =
                   Released(Acquired(Return(Wrote(@, "status", "ERROR", "Cluster creation failed", got = a), RES_ERROR)),
                            got = a)]
         ELSE /\ lock' = got
              /\ act' = [act EXCEPT ![a] = Acquired([@ EXCEPT !.pc = "create_spawn"])]
              /\ UNCHANGED cluster
  /\ UNCHANGED <<bindings, cancelled, dispatched, made, obj>>

(* do_create_spawn with the loop running once too often. *)
do_create_spawn_extra(a) ==
  /\ act[a].pc = "create_spawn"
  /\ LET m == Len(act[a].children) IN
     IF m < act[a].size + 1
       THEN LET node == cluster.nnodes + 1
                child == set_status(Linked(Stored(NewChild("NODE_CREATE", node), <<a, m + 1>>)), READY)
            IN /\ cluster' = [cluster EXCEPT !.nnodes = node, !.members = Append(@, node)]
               /\ act' = [act EXCEPT ![a] = [@ EXCEPT !.children = Append(@, child)]]
       ELSE /\ act' = [act EXCEPT ![a] = [@ EXCEPT !.pc = "create_notify"]]
            /\ UNCHANGED cluster
  /\ UNCHANGED <<lock, bindings, cancelled, dispatched, made, obj>>

(* Lines 377-395: one iteration of the loop over range(cluster.size). *)
do_create_spawn(a) ==
  /\ act[a].pc = "create_spawn"
  /\ LET m == Len(act[a].children) IN
     IF m < act[a].size
       THEN LET node == cluster.nnodes + 1
                child == set_status(Linked(Stored(NewChild("NODE_CREATE", node), <<a, m + 1>>)), READY)
            IN /\ cluster' = [cluster EXCEPT !.nnodes = node, !.members = Append(@, node)]
               /\ act' = [act EXCEPT ![a] = [@ EXCEPT !.children = Append(@, child)]]
       ELSE /\ act' = [act EXCEPT ![a] = [@ EXCEPT !.pc = "create_notify"]]
            /\ UNCHANGED cluster
  /\ UNCHANGED <<lock, bindings, cancelled, dispatched, made, obj>>

(* Lines 397-402: one dispatcher.notify per entry of action_list. *)
do_create_notify(a) ==
  /\ act[a].pc = "create_notify"
  /\ IF act[a].sent < Len(act[a].children)
       THEN /\ dispatched' = Append(dispatched, act[a].children[act[a].sent + 1].id)
            /\ act' = [act EXCEPT ![a] = [@ EXCEPT !.sent = @ + 1]]
       ELSE /\ act' = [act EXCEPT ![a] = [@ EXCEPT !.pc = "create_wait"]]
            /\ UNCHANGED dispatched
  /\ UNCHANGED <<lock, cluster, bindings, cancelled, made, obj>>

(* do_create_wait returning TIMEOUT without marking the cluster ERROR. *)
do_create_wait_quiet(a, ready, timeout) ==
  /\ act[a].pc = "create_wait"
  /\ IF ready
       THEN /\ cluster' = cluster_set_status(cluster, "ACTIVE", "Cluster creation completed")
            /\ lock' = cluster_lock_release(lock, a)
            /\ act' = [act EXCEPT ![a] =
                 Released(Return(Wrote(@, "status", "ACTIVE", "Cluster creation completed", lock = a), RES_OK),
                          lock = a)]
       ELSE IF cancelled[a]
         THEN /\ cluster' = cluster_set_status(cluster, "ERROR", "Cluster creation cancelled")
              /\ lock' = cluster_lock_release(lock, a)
              /\ act' = [act EXCEPT ![a] =
                   Released(Return(SawCancel(Wrote(@, "status", "ERROR", "Cluster creation cancelled", lock = a),
                                    timeout), RES_CANCEL),
                            lock = a)]
         ELSE IF timeout
           THEN /\ lock' = cluster_lock_release(lock, a)
                /\ act' = [act EXCEPT ![a] =
                     Released(Return(TimedOut(@), RES_TIMEOUT),
                              lock = a)]
                /\ UNCHANGED cluster
           ELSE UNCHANGED <<lock, cluster, act>>
  /\ UNCHANGED <<bindings, cancelled, dispatched, made, obj>>

(* Lines 404-428: one iteration of the wait loop, or its exit. *)
do_create_wait(a, ready, timeout) ==
  /\ act[a].pc = "create_wait"
  /\ IF ready
       THEN /\ cluster' = cluster_set_status(cluster, "ACTIVE", "Cluster creation completed")
            /\ lock' = cluster_lock_release(lock, a)
            /\ act' = [act EXCEPT ![a] =
                 Released(Return(Wrote(@, "status", "ACTIVE", "Cluster creation completed", lock = a), RES_OK),
                          lock = a)]
       ELSE IF cancelled[a]
         THEN /\ cluster' = cluster_set_status(cluster, "ERROR", "Cluster creation cancelled")
              /\ lock' = cluster_lock_release(lock, a)
              /\ act' = [act EXCEPT ![a] =
                   Released(Return(SawCancel(Wrote(@, "status", "ERROR", "Cluster creation cancelled", lock = a), timeout),
                          RES_CANCEL),
                            lock = a)]
         ELSE IF timeout
           THEN /\ cluster' = cluster_set_status(cluster, "ERROR", "Cluster creating timeout")
                /\ lock' = cluster_lock_release(lock, a)
                /\ act' = [act EXCEPT ![a] =
                     Released(Return(TimedOut(Wrote(@, "status", "ERROR", "Cluster creating timeout", lock = a)),
                            RES_TIMEOUT),
                              lock = a)]
           ELSE UNCHANGED <<lock, cluster, act>>
  /\ UNCHANGED <<bindings, cancelled, dispatched, made, obj>>

(* ----------------------------- do_update ------------------------------- *)
(* do_update_lock going on although the lock is held by another action. *)
do_update_lock_unchecked(a, res) ==
  /\ act[a].pc = "update_lock"
  /\ res
  /\ act' = [act EXCEPT ![a] = [@ EXCEPT !.pc = "update_spawn", !.todo = cluster.members]]
  /\ lock' = cluster_lock_create(lock, a)
  /\ UNCHANGED <<cluster, bindings, cancelled, dispatched, made, obj>>

(* Lines 430-454: lock; res is cluster.do_update()'s answer; node_list. *)
do_update_lock(a, res) ==
  /\ act[a].pc = "update_lock"
  /\ LET got == cluster_lock_create(lock, a) IN
     IF got # a
       THEN /\ act' = [act EXCEPT ![a] = Return([@ EXCEPT !.contested = TRUE], RES_CANCEL)]
            /\ UNCHANGED <<lock, cluster>>
       ELSE IF ~res
         THEN /\ cluster' = cluster_set_status(cluster, "ACTIVE", "Cluster updating was not executed")
              /\ lock' = cluster_lock_release(got, a)
              /\ act' = [act EXCEPT ![a] =
                   Released(Acquired(Return(Wrote(@, "status", "ACTIVE", "Cluster updating was not executed", got = a),
                          RES_ERROR)),
                            got = a)]
         ELSE /\ lock' = got
              /\ act' = [act EXCEPT ![a] = Acquired([@ EXCEPT !.pc = "update_spawn", !.todo = cluster.members])]
              /\ UNCHANGED cluster
  /\ UNCHANGED <<bindings, cancelled, dispatched, made, obj>>

(* Lines 455-471: one iteration of the loop over node_list; the child is
   never stored. *)
do_update_spawn(a) ==
  /\ act[a].pc = "update_spawn"
  /\ IF act[a].todo # <<>>
       THEN LET child == Linked(set_status(NewChild("NODE_UPDATE", Head(act[a].todo)), READY))
            IN act' = [act EXCEPT ![a] = [@ EXCEPT !.children = Append(@, child), !.todo = Tail(@)]]
       ELSE act' = [act EXCEPT ![a] = [@ EXCEPT !.pc = "update_notify"]]
  /\ UNCHANGED <<lock, cluster, bindings, cancelled, dispatched, made, obj>>

(* Lines 473-478 *)
do_update_notify(a) ==
  /\ act[a].pc = "update_notify"
  /\ IF act[a].sent < Len(act[a].children)
       THEN /\ dispatched' = Append(dispatched, act[a].children[act[a].sent + 1].id)
            /\ act' = [act EXCEPT ![a] = [@ EXCEPT !.sent = @ + 1]]
       ELSE /\ act' = [act EXCEPT ![a] = [@ EXCEPT !.pc = "update_wait"]]
            /\ UNCHANGED dispatched
  /\ UNCHANGED <<lock, cluster, bindings, cancelled, made, obj>>

(* What _cancel_update can find for a node (lines 512-535): no action of the
   node in the database; an action that a worker holds; an action that nobody
   holds, which action_start_work_on claims; an action that another worker
   claims first, so that action_start_work_on answers nothing. *)
InFlight == {"none", "running", "free", "taken"}

(* Lines 508-539: the loop over node_list.  A node without an action is left
   by continue, before the restore of lines 538-539; the else branch of line
   535 reads action.id of the missing answer and ends the loop by AttributeError. *)
RECURSIVE rollback(_, _)
rollback(node_list, inflight) ==
  IF node_list = <<>> THEN [raised |-> FALSE, restored |-> <<>>]
  ELSE LET node_id == Head(node_list) IN
       IF inflight[node_id] = "none" THEN rollback(Tail(node_list), inflight)
       ELSE IF inflight[node_id] = "taken" THEN [raised |-> TRUE, restored |-> <<>>]
       ELSE LET rest == rollback(Tail(node_list), inflight) IN
            [raised |-> rest.raised, restored |-> <<node_id>> \o rest.restored]

(* Lines 507-550: the rollback, then set_status(UPDATE_CANCELLED), given no
   reason, and the release of the lock; do_update returns CANCEL (line 489). *)
cancel_update(a, timeout, inflight) ==
  LET r == rollback(cluster.members, inflight) IN
  IF r.raised
    THEN /\ act' = [act EXCEPT ![a] =
              Return(SawCancel([@ EXCEPT !.restored = r.restored], timeout), RAISED)]
         /\ UNCHANGED <<lock, cluster>>
    ELSE /\ cluster' = cluster_set_status(cluster, "UPDATE_CANCELLED", "")
         /\ lock' = cluster_lock_release(lock, a)
         /\ act' = [act EXCEPT ![a] =
              Released(Return(SawCancel(Wrote([@ EXCEPT !.restored = r.restored],
                                     "status", "UPDATE_CANCELLED", "", lock = a), timeout),
                     RES_CANCEL),
                       lock = a)]

(* Lines 480-505 *)
do_update_wait(a, ready, timeout, inflight) ==
  /\ act[a].pc = "update_wait"
  /\ IF ready
       THEN /\ cluster' = cluster_set_status(cluster, "ACTIVE", "Cluster updating completed")
            /\ lock' = cluster_lock_release(lock, a)
            /\ act' = [act EXCEPT ![a] =
                 Released(Return(Wrote(@, "status", "ACTIVE", "Cluster updating completed", lock = a), RES_OK),
                          lock = a)]
       ELSE IF cancelled[a]
         THEN cancel_update(a, timeout, inflight)
         ELSE IF timeout
           THEN /\ cluster' = cluster_set_status(cluster, "ERROR", "cluster updating timeout")
                /\ lock' = cluster_lock_release(lock, a)
                /\ act' = [act EXCEPT ![a] =
                     Released(Return(TimedOut(Wrote(@, "status", "ERROR", "cluster updating timeout", lock = a)),
                            RES_TIMEOUT),
                              lock = a)]
           ELSE UNCHANGED <<lock, cluster, act>>
  /\ UNCHANGED <<bindings, cancelled, dispatched, made, obj>>

(* ----------------------------- do_delete ------------------------------- *)
(* Lines 553-554: set_status(DELETING) comes before the lock. *)
do_delete_mark(a) ==
  /\ act[a].pc = "delete_mark"
  /\ cluster' = cluster_set_status(cluster, "DELETING", "")
  /\ act' = [act EXCEPT ![a] = [Wrote(@, "status", "DELETING", "", lock = a) EXCEPT !.pc = "delete_lock"]]
  /\ UNCHANGED <<lock, bindings, cancelled, dispatched, made, obj>>

(* Lines 555-560 and 573-574: first attempt; a holder is asked to cancel. *)
do_delete_lock(a) ==
  /\ act[a].pc = "delete_lock"
  /\ LET got == cluster_lock_create(lock, a) IN
     IF got # a
       THEN /\ cancelled' = cancel_action(cancelled, got)
            /\ act' = [act EXCEPT ![a] = [@ EXCEPT !.contested = TRUE, !.pc = "delete_poll"]]
            /\ UNCHANGED lock
       ELSE /\ lock' = got
            /\ act' = [act EXCEPT ![a] = Acquired([@ EXCEPT !.pc = "delete_spawn", !.todo = cluster.members])]
            /\ UNCHANGED cancelled
  /\ UNCHANGED <<cluster, bindings, dispatched, made, obj>>

(* do_delete_poll leaving the loop on timeout instead of returning. *)
do_delete_poll_giveup(a, timeout) ==
  /\ act[a].pc = "delete_poll"
  /\ LET got == cluster_lock_create(lock, a) IN
     IF got = a
       THEN /\ lock' = got
            /\ act' = [act EXCEPT ![a] = Acquired([@ EXCEPT !.polled = TRUE, !.pc = "delete_spawn", !.todo = cluster.members])]
            /\ UNCHANGED cluster
       ELSE IF timeout
         THEN /\ cluster' = cluster_set_status(cluster, "ERROR", "Cluster deletion timed out waiting")
              /\ act' = [act EXCEPT ![a] =
                   [Wrote([@ EXCEPT !.polled = TRUE], "status", "ERROR",
                          "Cluster deletion timed out waiting", lock = a)
                      EXCEPT !.pc = "delete_spawn", !.todo = cluster.members]]
              /\ UNCHANGED lock
         ELSE /\ act' = [act EXCEPT ![a] = [@ EXCEPT !.polled = TRUE]]
              /\ UNCHANGED <<lock, cluster>>
  /\ UNCHANGED <<bindings, cancelled, dispatched, made, obj>>

(* do_delete_poll calling cluster_lock_release when it gives up. *)
do_delete_poll_release(a, timeout) ==
  /\ act[a].pc = "delete_poll"
  /\ LET got == cluster_lock_create(lock, a) IN
     IF got = a
       THEN /\ lock' = got
            /\ act' = [act EXCEPT ![a] = Acquired([@ EXCEPT !.polled = TRUE, !.pc = "delete_spawn", !.todo = cluster.members])]
            /\ UNCHANGED cluster
       ELSE IF timeout
         THEN /\ cluster' = cluster_set_status(cluster, "ERROR", "Cluster deletion timed out waiting")
              /\ act' = [act EXCEPT ![a] =
                   Released(Return(TimedOut(Wrote([@ EXCEPT !.polled = TRUE], "status", "ERROR",
                                "Cluster deletion timed out waiting", lock = a)), RES_TIMEOUT),
                            lock = a)]
              /\ lock' = cluster_lock_release(lock, a)
         ELSE /\ act' = [act EXCEPT ![a] = [@ EXCEPT !.polled = TRUE]]
              /\ UNCHANGED <<lock, cluster>>
  /\ UNCHANGED <<bindings, cancelled, dispatched, made, obj>>

(* do_delete_poll asking the holder it meets at each iteration to cancel. *)
do_delete_poll_recancel(a, timeout) ==
  /\ act[a].pc = "delete_poll"
  /\ LET got == cluster_lock_create(lock, a) IN
     IF got = a
       THEN /\ lock' = got
            /\ act' = [act EXCEPT ![a] = Acquired([@ EXCEPT !.polled = TRUE, !.pc = "delete_spawn", !.todo = cluster.members])]
            /\ UNCHANGED <<cluster, cancelled>>
       ELSE /\ cancelled' = cancel_action(cancelled, got)
            /\ IF timeout
                 THEN /\ cluster' = cluster_set_status(cluster, "ERROR", "Cluster deletion timed out waiting")
                      /\ act' = [act EXCEPT ![a] =
                           Return(TimedOut(Wrote([@ EXCEPT !.polled = TRUE], "status", "ERROR",
                                        "Cluster deletion timed out waiting", lock = a)), RES_TIMEOUT)]
                      /\ UNCHANGED lock
                 ELSE /\ act' = [act EXCEPT ![a] = [@ EXCEPT !.polled = TRUE]]
                      /\ UNCHANGED <<lock, cluster>>
  /\ UNCHANGED <<bindings, dispatched, made, obj>>

(* Lines 562-574: one iteration of the loop polling for the lock. *)
do_delete_poll(a, timeout) ==
  /\ act[a].pc = "delete_poll"
  /\ LET got == cluster_lock_create(lock, a) IN
     IF got = a
       THEN /\ lock' = got
            /\ act' = [act EXCEPT ![a] = Acquired([@ EXCEPT !.polled = TRUE, !.pc = "delete_spawn", !.todo = cluster.members])]
            /\ UNCHANGED cluster
       ELSE IF timeout
         THEN /\ cluster' = cluster_set_status(cluster, "ERROR", "Cluster deletion timed out waiting")
              /\ act' = [act EXCEPT ![a] =
                   Return(TimedOut(Wrote([@ EXCEPT !.polled = TRUE], "status", "ERROR",
                                "Cluster deletion timed out waiting", lock = a)), RES_TIMEOUT)]
              /\ UNCHANGED lock
         ELSE /\ act' = [act EXCEPT ![a] = [@ EXCEPT !.polled = TRUE]]
              /\ UNCHANGED <<lock, cluster>>
  /\ UNCHANGED <<bindings, cancelled, dispatched, made, obj>>

(* Lines 575-587: the child is never stored. *)
do_delete_spawn(a) ==
  /\ act[a].pc = "delete_spawn"
  /\ IF act[a].todo # <<>>
       THEN LET child == Linked(set_status(NewChild("NODE_DELETE", Head(act[a].todo)), READY))
            IN act' = [act EXCEPT ![a] = [@ EXCEPT !.children = Append(@, child), !.todo = Tail(@)]]
       ELSE act' = [act EXCEPT ![a] = [@ EXCEPT !.pc = "delete_notify"]]
  /\ UNCHANGED <<lock, cluster, bindings, cancelled, dispatched, made, obj>>

(* Lines 589-594 *)
do_delete_notify(a) ==
  /\ act[a].pc = "delete_notify"
  /\ IF act[a].sent < Len(act[a].children)
       THEN /\ dispatched' = Append(dispatched, act[a].children[act[a].sent + 1].id)
            /\ act' = [act EXCEPT ![a] = [@ EXCEPT !.sent = @ + 1]]
       ELSE /\ act' = [act EXCEPT ![a] = [@ EXCEPT !.pc = "delete_wait"]]
            /\ UNCHANGED dispatched
  /\ UNCHANGED <<lock, cluster, bindings, cancelled, made, obj>>

(* cluster.do_delete(context): the durable delete. *)
cluster_do_delete(c) == [c EXCEPT !.status = "DELETED", !.exists = FALSE]

(* do_delete_wait releasing the lock on READY, before the durable delete. *)
do_delete_wait_release_first(a, ready, timeout) ==
  /\ act[a].pc = "delete_wait"
  /\ IF ready
       THEN /\ lock' = cluster_lock_release(lock, a)
            /\ act' = [act EXCEPT ![a] =
                 Released([@ EXCEPT !.pc = "delete_release"],
                          lock = a)]
            /\ UNCHANGED cluster
       ELSE IF cancelled[a]
         THEN /\ cluster' = cluster_set_status(cluster, "ERROR", "Cluster deleting cancelled")
              /\ lock' = cluster_lock_release(lock, a)
              /\ act' = [act EXCEPT ![a] =
                   Released(Return(SawCancel(Wrote(@, "status", "ERROR", "Cluster deleting cancelled", lock = a),
                                    timeout), RES_CANCEL),
                            lock = a)]
         ELSE IF timeout
           THEN /\ cluster' = cluster_set_status(cluster, "ERROR", "Cluster deletion timed out")
                /\ lock' = cluster_lock_release(lock, a)
                /\ act' = [act EXCEPT ![a] =
                     Released(Return(TimedOut(Wrote(@, "status", "ERROR", "Cluster deletion timed out", lock = a)),
                            RES_TIMEOUT),
                              lock = a)]
           ELSE UNCHANGED <<lock, cluster, act>>
  /\ UNCHANGED <<bindings, cancelled, dispatched, made, obj>>

(* Lines 596-621: one iteration of the wait loop, or its exit by READY to
   the durable delete of line 621. *)
do_delete_wait(a, ready, timeout) ==
  /\ act[a].pc = "delete_wait"
  /\ IF ready
       THEN /\ cluster' = cluster_do_delete(cluster)
            /\ act' = [act EXCEPT ![a] =
                 [Wrote(@, "delete", "DELETED", "", lock = a) EXCEPT !.pc = "delete_release"]]
            /\ UNCHANGED lock
       ELSE IF cancelled[a]
         THEN /\ cluster' = cluster_set_status(cluster, "ERROR", "Cluster deleting cancelled")
              /\ lock' = cluster_lock_release(lock, a)
              /\ act' = [act EXCEPT ![a] =
                   Released(Return(SawCancel(Wrote(@, "status", "ERROR", "Cluster deleting cancelled", lock = a), timeout),
                          RES_CANCEL),
                            lock = a)]
         ELSE IF timeout
           THEN /\ cluster' = cluster_set_status(cluster, "ERROR", "Cluster deletion timed out")
                /\ lock' = cluster_lock_release(lock, a)
                /\ act' = [act EXCEPT ![a] =
                     Released(Return(TimedOut(Wrote(@, "status", "ERROR", "Cluster deletion timed out", lock = a)),
                            RES_TIMEOUT),
                              lock = a)]
           ELSE UNCHANGED <<lock, cluster, act>>
  /\ UNCHANGED <<bindings, cancelled, dispatched, made, obj>>

(* Lines 622-624: the lock is released after the durable delete. *)
do_delete_release(a) ==
  /\ act[a].pc = "delete_release"
  /\ lock' = cluster_lock_release(lock, a)
  /\ act' = [act EXCEPT ![a] =
       Released(Return(@, RES_OK),
                lock = a)]
  /\ UNCHANGED <<cluster, bindings, cancelled, dispatched, made, obj>>

(* ---------------------------- policy_check ----------------------------- *)
(* policy_check_list without the filter on p.enabled. *)
RECURSIVE policy_check_list_all(_, _)
policy_check_list_all(all, target) ==
  IF all = <<>> THEN <<>>
  ELSE (IF target \in PolicyTarget(Head(all).policy_id)
          THEN <<Head(all).policy_id>> ELSE <<>>)
       \o policy_check_list_all(Tail(all), target)

(* Lines 262-272: the enabled policies whose TARGET holds the target. *)
RECURSIVE policy_check_list(_, _)
policy_check_list(all, target) ==
  IF all = <<>> THEN <<>>
  ELSE (IF Head(all).enabled /\ target \in PolicyTarget(Head(all).policy_id)
          THEN <<Head(all).policy_id>> ELSE <<>>)
       \o policy_check_list(Tail(all), target)

(* Node lists a deletion policy may name: members, no node twice. *)
CandidateLists(members) ==
  {<<>>} \cup {<<n>> : n \in Range(members)}
         \cup {<<n, m>> : <<n, m>> \in {q \in Range(members) \X Range(members) : q[1] # q[2]}}

(* policy.pre_op / policy.post_op: what a policy may answer.  A scaling policy
   says how many nodes to remove, a deletion policy names them. *)
policy_op(p, data, members) ==
  {[data EXCEPT !.result = r] : r \in {CHECK_FAIL, CHECK_RETRY}}
  \cup
  CASE PolicyType(p) = "ScalingPolicy" ->
         {[data EXCEPT !.result = CHECK_SUCCEED, !.count = c] : c \in 0..MaxCount}
    [] PolicyType(p) = "DeletionPolicy" ->
         {[data EXCEPT !.result = CHECK_SUCCEED, !.candidates = l] : l \in CandidateLists(members)}
    [] OTHER -> {[data EXCEPT !.result = CHECK_SUCCEED]}

(* Where the caller goes on once policy_check has returned. *)
AfterCheck(phase) == IF phase = "BEFORE" THEN "scale_select" ELSE "scale_finish"

(* Lines 258-276: build the list; return the default data when it is empty.
   plist and evals are the history of this check: the list as built and the
   evaluations (policy, answer) made so far, the first MaxEvals of them. *)
policy_check_start(r, phase, verb) ==
  LET list == policy_check_list(bindings, <<phase, verb>>) IN
  IF list = <<>>
    THEN [r EXCEPT !.data = EmptyData, !.ret = "data", !.phase = phase, !.pc = AfterCheck(phase),
                   !.plist = <<>>, !.evals = <<>>]
    ELSE [r EXCEPT !.data = EmptyData, !.ret = NONE, !.phase = phase, !.queue = list,
                   !.pc = "policy_check", !.plist = list, !.evals = <<>>]

Evaluated(r, policy, result) ==
  [r EXCEPT !.checked = TRUE,
            !.evals = IF Len(@) < MaxEvals THEN Append(@, <<policy, result>>) ELSE @]

(* policy_check leaving a policy that answers retry at the head of the list. *)
policy_check_requeue_head(a, data) ==
  /\ act[a].pc = "policy_check"
  /\ act[a].queue # <<>>
  /\ LET policy == Head(act[a].queue)
         rest == Tail(act[a].queue)
     IN /\ data \in policy_op(policy, act[a].data, cluster.members)
        /\ IF data.result = CHECK_FAIL
             THEN act' = [act EXCEPT ![a] =
                    [Evaluated(@, policy, data.result) EXCEPT
                       !.data = data, !.ret = "False", !.pc = AfterCheck(act[a].phase)]]
             ELSE IF data.result = CHECK_RETRY
               THEN act' = [act EXCEPT ![a] =
                      [Evaluated(@, policy, data.result) EXCEPT !.data = data]]
               ELSE act' = [act EXCEPT ![a] =
                      [Evaluated(@, policy, data.result) EXCEPT
                         !.data = data, !.queue = rest,
                         !.ret = IF rest = <<>> THEN "data" ELSE NONE,
                         !.pc = IF rest = <<>> THEN AfterCheck(act[a].phase) ELSE @]]
  /\ UNCHANGED <<lock, cluster, bindings, cancelled, dispatched, made, obj>>

(* policy_check going on to the next policy after a policy answered fail. *)
policy_check_ignore_fail(a, data) ==
  /\ act[a].pc = "policy_check"
  /\ act[a].queue # <<>>
  /\ LET policy == Head(act[a].queue)
         rest == Tail(act[a].queue)
     IN /\ data \in policy_op(policy, act[a].data, cluster.members)
        /\ IF data.result = CHECK_RETRY
             THEN act' = [act EXCEPT ![a] =
                    [Evaluated(@, policy, data.result) EXCEPT
                       !.data = data, !.queue = Append(rest, policy)]]
             ELSE act' = [act EXCEPT ![a] =
                    [Evaluated(@, policy, data.result) EXCEPT
                       !.data = data, !.queue = rest,
                       !.ret = IF rest = <<>> THEN "data" ELSE NONE,
                       !.pc = IF rest = <<>> THEN AfterCheck(act[a].phase) ELSE @]]
  /\ UNCHANGED <<lock, cluster, bindings, cancelled, dispatched, made, obj>>

(* Lines 278-308: one iteration of the while loop; data is the policy's answer. *)
policy_check(a, data) ==
  /\ act[a].pc = "policy_check"
  /\ act[a].queue # <<>>
  /\ LET policy == Head(act[a].queue)
         rest == Tail(act[a].queue)
     IN /\ data \in policy_op(policy, act[a].data, cluster.members)
        /\ IF data.result = CHECK_FAIL
             THEN act' = [act EXCEPT ![a] =
                    [Evaluated(@, policy, data.result) EXCEPT
                       !.data = data, !.ret = "False", !.pc = AfterCheck(act[a].phase)]]
             ELSE IF data.result = CHECK_RETRY
               THEN act' = [act EXCEPT ![a] =
                      [Evaluated(@, policy, data.result) EXCEPT
                         !.data = data, !.queue = Append(rest, policy)]]
               ELSE act' = [act EXCEPT ![a] =
                      [Evaluated(@, policy, data.result) EXCEPT
                         !.data = data, !.queue = rest,
                         !.ret = IF rest = <<>> THEN "data" ELSE NONE,
                         !.pc = IF rest = <<>> THEN AfterCheck(act[a].phase) ELSE @]]
  /\ UNCHANGED <<lock, cluster, bindings, cancelled, dispatched, made, obj>>

(* --------------------------- do_scale_down ----------------------------- *)
(* do_scale_down_lock asking the holder to cancel, as do_delete does. *)
do_scale_down_lock_preempt(a) ==
  /\ act[a].pc = "scale_lock"
  /\ LET got == cluster_lock_create(lock, a) IN
     IF got # a
       THEN /\ act' = [act EXCEPT ![a] = Return([@ EXCEPT !.contested = TRUE], RES_RETRY)]
            /\ cancelled' = cancel_action(cancelled, got)
            /\ UNCHANGED lock
       ELSE /\ lock' = got
            /\ act' = [act EXCEPT ![a] = Acquired(policy_check_start(@, "BEFORE", CLUSTER_SCALE_DOWN))]
            /\ UNCHANGED cancelled
  /\ UNCHANGED <<cluster, bindings, dispatched, made, obj>>

(* Lines 635-645: non-blocking lock, then the BEFORE check starts. *)
do_scale_down_lock(a) ==
  /\ act[a].pc = "scale_lock"
  /\ LET got == cluster_lock_create(lock, a) IN
     IF got # a
       THEN /\ act' = [act EXCEPT ![a] = Return([@ EXCEPT !.contested = TRUE], RES_RETRY)]
            /\ UNCHANGED lock
       ELSE /\ lock' = got
            /\ act' = [act EXCEPT ![a] = Acquired(policy_check_start(@, "BEFORE", CLUSTER_SCALE_DOWN))]
  /\ UNCHANGED <<cluster, bindings, cancelled, dispatched, made, obj>>

(* random_select without nodes.remove: a node may be drawn twice. *)
RECURSIVE random_select_keep(_, _, _)
random_select_keep(nodes, i, candidates) ==
  IF i > 0
    THEN UNION {random_select_keep(nodes, i - 1, Append(candidates, nodes[rand + 1]))
                  : rand \in 0..(i - 1)}
    ELSE {candidates}

(* Lines 666-671: the candidate lists the loop can build from nodes when
   random.randrange(i) may answer any of 0..i-1. *)
RECURSIVE random_select(_, _, _)
random_select(nodes, i, candidates) ==
  IF i > 0
    THEN UNION {random_select(RemoveAt(nodes, rand + 1), i - 1, Append(candidates, nodes[rand + 1]))
                  : rand \in 0..(i - 1)}
    ELSE {candidates}

(* Lines 646-671: evaluate the check's result and choose the candidates. *)
do_scale_down_select(a) ==
  /\ act[a].pc = "scale_select"
  /\ IF act[a].ret = "False"
       THEN /\ lock' = cluster_lock_release(lock, a)
            /\ act' = [act EXCEPT ![a] =
                 Released(Return([@ EXCEPT !.vetoed = TRUE], RES_ERROR),
                          lock = a)]
       ELSE LET count == act[a].data.count
                nodes == cluster.members
            IN IF count = 0
                 THEN /\ act' = [act EXCEPT ![a] = Return(@, RES_ERROR)]
                      /\ UNCHANGED lock
                 ELSE /\ \E candidates \in
                            (IF Len(act[a].data.candidates) = 0
                               THEN random_select(nodes, Min(count, Len(nodes)), <<>>)
                               ELSE {act[a].data.candidates}) :
                           act' = [act EXCEPT ![a] =
                             [@ EXCEPT !.nodes = nodes, !.todo = candidates, !.pc = "scale_spawn",
                                       !.plist = <<>>, !.evals = <<>>]]
                      /\ UNCHANGED lock
  /\ UNCHANGED <<cluster, bindings, cancelled, dispatched, made, obj>>

(* Lines 673-686: the child is stored, linked and set READY. *)
do_scale_down_spawn(a) ==
  /\ act[a].pc = "scale_spawn"
  /\ LET m == Len(act[a].children) IN
     IF m < Len(act[a].todo)
       THEN LET child == set_status(Linked(Stored(NewChild("NODE_DELETE", act[a].todo[m + 1]),
                                                  <<a, m + 1>>)), READY)
            IN act' = [act EXCEPT ![a] = [@ EXCEPT !.children = Append(@, child)]]
       ELSE act' = [act EXCEPT ![a] = [@ EXCEPT !.pc = "scale_notify"]]
  /\ UNCHANGED <<lock, cluster, bindings, cancelled, dispatched, made, obj>>

(* Lines 688-693 *)
do_scale_down_notify(a) ==
  /\ act[a].pc = "scale_notify"
  /\ IF act[a].sent < Len(act[a].children)
       THEN /\ dispatched' = Append(dispatched, act[a].children[act[a].sent + 1].id)
            /\ act' = [act EXCEPT ![a] = [@ EXCEPT !.sent = @ + 1]]
       ELSE /\ act' = [act EXCEPT ![a] = [@ EXCEPT !.pc = "scale_wait"]]
            /\ UNCHANGED dispatched
  /\ UNCHANGED <<lock, cluster, bindings, cancelled, made, obj>>

(* cluster.delete_nodes(candidates) *)
cluster_delete_nodes(c, candidates) == [c EXCEPT !.members = Without(@, Range(candidates))]

(* do_scale_down_wait with the cancellation check of the other wait loops. *)
do_scale_down_wait_cancellable(a, ready, timeout) ==
  /\ act[a].pc = "scale_wait"
  /\ IF ready
       THEN /\ cluster' = cluster_delete_nodes(cluster, act[a].todo)
            /\ act' = [act EXCEPT ![a] =
                 policy_check_start(Wrote(@, "members", NONE, "", lock = a), "AFTER", CLUSTER_SCALE_DOWN)]
            /\ UNCHANGED lock
       ELSE IF cancelled[a]
         THEN /\ cluster' = cluster_set_status(cluster, "ERROR", "Cluster scaling down cancelled")
              /\ lock' = cluster_lock_release(lock, a)
              /\ act' = [act EXCEPT ![a] =
                   Released(Return(SawCancel(Wrote(@, "status", "ERROR", "Cluster scaling down cancelled", lock = a), timeout),
                          RES_CANCEL),
                            lock = a)]
         ELSE IF timeout
           THEN /\ cluster' = cluster_set_status(cluster, "ERROR", "Cluster scaling down timeout")
                /\ lock' = cluster_lock_release(lock, a)
                /\ act' = [act EXCEPT ![a] =
                     Released(Return(TimedOut(Wrote(@, "status", "ERROR", "Cluster scaling down timeout", lock = a)),
                            RES_TIMEOUT),
                              lock = a)]
           ELSE UNCHANGED <<lock, cluster, act>>
  /\ UNCHANGED <<bindings, cancelled, dispatched, made, obj>>

(* do_scale_down_wait starting the AFTER check with the membership as it is. *)
do_scale_down_wait_keep(a, ready, timeout) ==
  /\ act[a].pc = "scale_wait"
  /\ IF ready
       THEN /\ act' = [act EXCEPT ![a] =
                 policy_check_start(Wrote(@, "members", NONE, "", lock = a), "AFTER", CLUSTER_SCALE_DOWN)]
            /\ UNCHANGED <<lock, cluster>>
       ELSE IF timeout
         THEN /\ cluster' = cluster_set_status(cluster, "ERROR", "Cluster scaling down timeout")
              /\ lock' = cluster_lock_release(lock, a)
              /\ act' = [act EXCEPT ![a] =
                   Released(Return(TimedOut(Wrote(@, "status", "ERROR", "Cluster scaling down timeout", lock = a)),
                          RES_TIMEOUT),
                            lock = a)]
         ELSE UNCHANGED <<lock, cluster, act>>
  /\ UNCHANGED <<bindings, cancelled, dispatched, made, obj>>

(* Lines 695-714: the wait loop checks the timeout only; on READY the nodes
   leave the membership and the AFTER check starts. *)
do_scale_down_wait(a, ready, timeout) ==
  /\ act[a].pc = "scale_wait"
  /\ IF ready
       THEN /\ cluster' = cluster_delete_nodes(cluster, act[a].todo)
            /\ act' = [act EXCEPT ![a] =
                 policy_check_start(Wrote(@, "members", NONE, "", lock = a), "AFTER", CLUSTER_SCALE_DOWN)]
            /\ UNCHANGED lock
       ELSE IF timeout
         THEN /\ cluster' = cluster_set_status(cluster, "ERROR", "Cluster scaling down timeout")
              /\ lock' = cluster_lock_release(lock, a)
              /\ act' = [act EXCEPT ![a] =
                   Released(Return(TimedOut(Wrote(@, "status", "ERROR", "Cluster scaling down timeout", lock = a)),
                          RES_TIMEOUT),
                            lock = a)]
         ELSE UNCHANGED <<lock, cluster, act>>
  /\ UNCHANGED <<bindings, cancelled, dispatched, made, obj>>

(* Lines 715-722: the AFTER check's result; the lock is released. *)
do_scale_down_finish(a) ==
  /\ act[a].pc = "scale_finish"
  /\ lock' = cluster_lock_release(lock, a)
  /\ act' = [act EXCEPT ![a] =
       Released(Return(@, IF act[a].ret = "False" THEN RES_ERROR ELSE RES_OK),
                lock = a)]
  /\ UNCHANGED <<cluster, bindings, cancelled, dispatched, made, obj>>

(* -------------------------- do_attach_policy --------------------------- *)
(* attach_scan without the detection of type conflicts. *)
RECURSIVE attach_scan_no_conflict(_, _)
attach_scan_no_conflict(all, policy_id) ==
  IF all = <<>> THEN "attach"
  ELSE IF Head(all).policy_id = policy_id THEN RES_OK
  ELSE attach_scan_no_conflict(Tail(all), policy_id)

(* Lines 732-740: the scan of the existing associations. *)
RECURSIVE attach_scan(_, _)
attach_scan(all, policy_id) ==
  IF all = <<>> THEN "attach"
  ELSE IF Head(all).policy_id = policy_id THEN RES_OK
  ELSE IF PolicyType(Head(all).policy_id) = PolicyType(policy_id) THEN PolicyExists
  ELSE attach_scan(Tail(all), policy_id)

(* Lines 724-746: inputs, load of the associations, the scan. *)
do_attach_policy_check(a, policy_id, enabled) ==
  /\ act[a].pc = "attach_check"
  /\ IF policy_id = NoPolicy
       THEN act' = [act EXCEPT ![a] = Return(@, PolicyNotSpecified)]
       ELSE LET found == attach_scan(bindings, policy_id) IN
            IF found = RES_OK
              THEN act' = [act EXCEPT ![a] = Return([@ EXCEPT !.asked = policy_id], RES_OK)]
              ELSE IF found = PolicyExists
                THEN act' = [act EXCEPT ![a] = Return([@ EXCEPT !.asked = policy_id], PolicyExists)]
                ELSE act' = [act EXCEPT ![a] =
                       [@ EXCEPT !.asked = policy_id, !.policy = policy_id, !.enabled = enabled,
                                 !.pc = "attach_write"]]
  /\ UNCHANGED <<lock, cluster, bindings, cancelled, dispatched, made, obj>>

(* Lines 748-752: db_api.cluster_attach_policy and the runtime list. *)
do_attach_policy_write(a) ==
  /\ act[a].pc = "attach_write"
  /\ bindings' = Append(bindings, [policy_id |-> act[a].policy, enabled |-> act[a].enabled])
  /\ cluster' = [cluster EXCEPT !.rt = Append(@, act[a].policy)]
  /\ act' = [act EXCEPT ![a] = Return(@, RES_OK)]
  /\ UNCHANGED <<lock, cancelled, dispatched, made, obj>>

(* --------------------------- other workers ----------------------------- *)
Running(a) == act[a].pc \notin {"idle", "done"}

(* A user asks for the cancellation of a running action. *)
RequestCancel(a) ==
  /\ Running(a)
  /\ ~cancelled[a]
  /\ cancelled' = cancel_action(cancelled, a)
  /\ UNCHANGED <<lock, cluster, bindings, act, dispatched, made, obj>>

Next ==
  \E a \in Actions :
    \/ \E v \in ClusterVerbs : execute(a, v)
    \/ \E res \in BOOLEAN : do_create_lock(a, res)
    \/ do_create_spawn(a)
    \/ do_create_notify(a)
    \/ \E ready, timeout \in BOOLEAN : do_create_wait(a, ready, timeout)
    \/ \E res \in BOOLEAN : do_update_lock(a, res)
    \/ do_update_spawn(a)
    \/ do_update_notify(a)
    \/ \E ready, timeout \in BOOLEAN, inflight \in [Range(cluster.members) -> InFlight] :
         do_update_wait(a, ready, timeout, inflight)
    \/ do_delete_mark(a)
    \/ do_delete_lock(a)
    \/ \E timeout \in BOOLEAN : do_delete_poll(a, timeout)
    \/ do_delete_spawn(a)
    \/ do_delete_notify(a)
    \/ \E ready, timeout \in BOOLEAN : do_delete_wait(a, ready, timeout)
    \/ do_delete_release(a)
    \/ \E data \in [result : {CHECK_SUCCEED, CHECK_FAIL, CHECK_RETRY}, count : 0..MaxCount,
                     candidates : CandidateLists(cluster.members)] : policy_check(a, data)
    \/ do_scale_down_lock(a)
    \/ do_scale_down_select(a)
    \/ do_scale_down_spawn(a)
    \/ do_scale_down_notify(a)
    \/ \E ready, timeout \in BOOLEAN : do_scale_down_wait(a, ready, timeout)
    \/ do_scale_down_finish(a)
    \/ \E p \in Policies \cup {NoPolicy}, e \in BOOLEAN : do_attach_policy_check(a, p, e)
    \/ do_attach_policy_write(a)
    \/ RequestCancel(a)

Spec == Init /\ [][Next]_vars

(* ------------------- workers that only attach policies ----------------- *)
NumAttach == 3      \* attach-policy actions that may run against the cluster

(* Associations a cluster can have got from earlier attach-policy actions. *)
InitAttachBindings == {<<>>, <<1>>, <<4>>, <<2, 3>>, <<1, 2, 3>>}

InitAttach ==
  /\ lock = NoAction
  /\ \E c \in {x \in InitClusters : x.status = "ACTIVE"}, b \in InitAttachBindings :
       /\ cluster = [c EXCEPT !.rt = b]
       /\ bindings = Bound(b)
  /\ act = [a \in 1..NumAttach |-> InitAct]
  /\ cancelled = [a \in 1..NumAttach |-> FALSE]
  /\ dispatched = <<>>
  /\ made = NoCall
  /\ obj = NoObject

NextAttach ==
  \E a \in 1..NumAttach :
    \/ execute(a, CLUSTER_ATTACH_POLICY)
    \/ \E p \in Policies \cup {NoPolicy}, e \in BOOLEAN : do_attach_policy_check(a, p, e)
    \/ do_attach_policy_write(a)

SpecAttach == InitAttach /\ [][NextAttach]_vars

(* ----------------------- callers of the constructors ------------------- *)
Classes == {"Action", "ClusterAction", "NodeAction", "PolicyAction", "CustomAction"}

(* The verbs of the four classes and verbs that no class has. *)
Verbs ==
  ClusterAction_ACTIONS \cup NodeAction_ACTIONS \cup PolicyAction_ACTIONS \cup CustomAction_ACTIONS
  \cup {<<"CLUSTER", "RESIZE">>, <<"NODE", "MIGRATE">>, <<"POLICY", "ATTACH">>,
        <<"ACTION", "CANCEL">>, <<"PROFILE", "CREATE">>, <<"EXECUTE">>}

Kwargs == [target : {None, "c1"}, cluster_id : {None, "c1"}, policy_id : {None, "p1"}]

construct(cls, action, kwargs) ==
  /\ made' = Construct(cls, action, kwargs)
  /\ UNCHANGED <<lock, cluster, bindings, act, cancelled, dispatched, obj>>

NextConstruct ==
  \E cls \in Classes, action \in Verbs, kwargs \in Kwargs : construct(cls, action, kwargs)

(* No action is running and no constructor was called yet. *)
InitConstruct ==
  /\ lock = NoAction
  /\ cluster \in {c \in InitClusters : c.status = INIT /\ c.size = 0}
  /\ bindings = <<>>
  /\ act = [a \in Actions |-> InitAct]
  /\ cancelled = [a \in Actions |-> FALSE]
  /\ dispatched = <<>>
  /\ made = NoCall
  /\ obj = NoObject

SpecConstruct == InitConstruct /\ [][NextConstruct]_vars

(* ------------------- workers that only scale the cluster down ---------- *)
NumScale == 1       \* scale-down actions that may run against the cluster

(* Associations of a cluster, in creation order; those in off are disabled. *)
InitPolicyBindings ==
  {[i \in 1..Len(b) |-> [policy_id |-> b[i], enabled |-> b[i] \notin off]] :
     <<b, off>> \in {<<>>, <<1>>, <<1, 2, 3>>, <<1, 2, 5>>, <<1, 3, 5>>} \X {{}, {1}, {2}, {3}, {1, 2}}}

InitPolicy ==
  /\ lock = NoAction
  /\ \E c \in InitClusters, b \in InitPolicyBindings :
       /\ cluster = [c EXCEPT !.rt = [i \in 1..Len(b) |-> b[i].policy_id]]
       /\ bindings = b
  /\ act = [a \in 1..NumScale |-> InitAct]
  /\ cancelled = [a \in 1..NumScale |-> FALSE]
  /\ dispatched = <<>>
  /\ made = NoCall
  /\ obj = NoObject

(* The steps of the worker that executes scale-down action a. *)
ScaleDownStep(a) ==
  \/ execute(a, CLUSTER_SCALE_DOWN)
  \/ do_scale_down_lock(a)
  \/ \E data \in [result : {CHECK_SUCCEED, CHECK_FAIL, CHECK_RETRY}, count : 0..MaxCount,
                   candidates : CandidateLists(cluster.members)] : policy_check(a, data)
  \/ do_scale_down_select(a)
  \/ do_scale_down_spawn(a)
  \/ do_scale_down_notify(a)
  \/ \E ready, timeout \in BOOLEAN : do_scale_down_wait(a, ready, timeout)
  \/ do_scale_down_finish(a)

NextPolicy == \E a \in 1..NumScale : ScaleDownStep(a)

SpecPolicy == InitPolicy /\ [][NextPolicy]_vars

(* A worker that can take a step takes one. *)
SpecPolicyFair == SpecPolicy /\ \A a \in 1..NumScale : WF_vars(ScaleDownStep(a))

(* ------------------ a worker that handles one action object ------------ *)
(* Action.store, lines 132-158: the record is created with the object's
   status and the object gets the record's id. *)
Action_store ==
  /\ obj.db = NONE
  /\ obj' = [obj EXCEPT !.self.id = "a1", !.db = obj.self.status, !.call = "store",
                        !.arg = NONE, !.raised = NONE, !.ret = "a1"]
  /\ UNCHANGED <<lock, cluster, bindings, act, cancelled, dispatched, made>>

(* Action.set_status, lines 233-245.  The third test reads self.CANCELLED, an
   attribute the class does not have (STATUSES names it CANCELED): a status
   other than SUCCEEDED and FAILED ends in AttributeError before line 245. *)
Action_set_status(status) ==
  /\ obj.db # NONE
  /\ IF status \in {SUCCEEDED, FAILED}
       THEN obj' = [obj EXCEPT !.db = status, !.self.status = status, !.call = "set_status",
                               !.arg = status, !.asked = status, !.raised = NONE, !.ret = None]
       ELSE obj' = [obj EXCEPT !.call = "set_status", !.arg = status, !.asked = status,
                               !.raised = "AttributeError", !.ret = NONE]
  /\ UNCHANGED <<lock, cluster, bindings, act, cancelled, dispatched, made>>

(* Action.get_status, lines 247-250: the record is read and its status kept. *)
Action_get_status ==
  /\ obj.db # NONE
  /\ obj' = [obj EXCEPT !.self.status = obj.db, !.call = "get_status", !.arg = NONE,
                        !.raised = NONE, !.ret = obj.db]
  /\ UNCHANGED <<lock, cluster, bindings, act, cancelled, dispatched, made>>

(* Another worker writes the status of the record. *)
OtherWorkerWrites(status) ==
  /\ obj.db # NONE
  /\ obj.db # status
  /\ obj' = [obj EXCEPT !.db = status, !.foreign = TRUE]
  /\ UNCHANGED <<lock, cluster, bindings, act, cancelled, dispatched, made>>

(* cls.from_dict with the positional arguments args and the map of
   self.to_dict() as keyword arguments. *)
Action_round_trip(cls, args) ==
  /\ LET r == from_dict(cls, args, to_dict(obj.self)) IN
     obj' = [obj EXCEPT !.call = "from_dict", !.arg = IF args = <<>> THEN NONE ELSE args[1],
                        !.raised = r.raised, !.ret = NONE, !.copy = r.self]
  /\ UNCHANGED <<lock, cluster, bindings, act, cancelled, dispatched, made>>

NextObject ==
  \/ Action_store
  \/ \E status \in STATUSES : Action_set_status(status)
  \/ Action_get_status
  \/ \E status \in {RUNNING, SUCCEEDED, FAILED, CANCELED} : OtherWorkerWrites(status)
  \/ \E cls \in {"Action", obj.self.class}, args \in {<<>>, <<"RequestContext">>} :
       Action_round_trip(cls, args)

(* The verbs and keyword arguments the objects are constructed with. *)
ObjectVerbs == {<<"CLUSTER", "CREATE">>, <<"CLUSTER", "SCALE", "DOWN">>, <<"NODE", "UPDATE">>,
                <<"POLICY", "ENABLE">>, <<"ACTION", "EXECUTE">>}
ObjectKwargs == [target : {"c1"}, cluster_id : {"c1"}, policy_id : {"p1"}, status : STATUSES,
                 inputs : {{}, {"new_profile_id"}}, outputs : {{}, {"result"}}]

(* An object was constructed from a request context and is not stored yet. *)
InitObject ==
  /\ lock = NoAction
  /\ cluster \in {c \in InitClusters : c.status = INIT /\ c.size = 0}
  /\ bindings = <<>>
  /\ act = [a \in Actions |-> InitAct]
  /\ cancelled = [a \in Actions |-> FALSE]
  /\ dispatched = <<>>
  /\ made = NoCall
  /\ \E action \in ObjectVerbs, kwargs \in ObjectKwargs :
       LET r == Construct_self("Action", "RequestContext", action, kwargs) IN
       /\ r.raised = NONE
       /\ obj = [NoObject EXCEPT !.self = r.self]

SpecObject == InitObject /\ [][NextObject]_vars


(* ----------- a worker that executes a node or a policy action ---------- *)
(* The node-level operation that NodeAction.execute calls for a verb, lines
   811-824. *)
node_op(action) == CASE action = <<"NODE", "CREATE">> -> "do_create"
                     [] action = <<"NODE", "DELETE">> -> "do_delete"
                     [] action = <<"NODE", "UPDATE">> -> "do_update"
                     [] action = <<"NODE", "JOIN", "CLUSTER">> -> "do_join"
                     [] action = <<"NODE", "LEAVE", "CLUSTER">> -> "do_leave"
                     [] OTHER -> NONE

(* NodeAction_execute that returns OK whatever the node-level operation answers. *)
NodeAction_execute_always_ok(found, res) ==
  /\ obj.self.class = "NodeAction"
  /\ LET called == [obj EXCEPT !.call = "execute", !.arg = NONE,
                               !.node = IF found THEN "found" ELSE "missing"]
     IN IF ~found
          THEN obj' = [called EXCEPT !.raised = "NotFound", !.ret = NONE, !.op = NONE,
                                     !.res = NONE]
          ELSE IF obj.self.action = <<"NODE", "JOIN", "CLUSTER">>
                    /\ "cluster_id" \notin obj.self.inputs
            THEN obj' = [called EXCEPT !.raised = "ClusterNotSpecified", !.ret = NONE,
                                       !.op = NONE, !.res = NONE]
            ELSE obj' = [called EXCEPT !.raised = NONE, !.op = node_op(obj.self.action),
                                       !.res = IF res THEN "True" ELSE "False",
                                       !.ret = RES_OK]
  /\ UNCHANGED <<lock, cluster, bindings, act, cancelled, dispatched, made>>

(* NodeAction.execute, lines 804-826: found tells whether nodes.load answers
   a node, res is the answer of the node-level operation. *)
NodeAction_execute(found, res) ==
  /\ obj.self.class = "NodeAction"
  /\ LET called == [obj EXCEPT !.call = "execute", !.arg = NONE,
                               !.node = IF found THEN "found" ELSE "missing"]
     IN IF ~found
          THEN obj' = [called EXCEPT !.raised = "NotFound", !.ret = NONE, !.op = NONE,
                                     !.res = NONE]
          ELSE IF obj.self.action = <<"NODE", "JOIN", "CLUSTER">>
                    /\ "cluster_id" \notin obj.self.inputs
            THEN obj' = [called EXCEPT !.raised = "ClusterNotSpecified", !.ret = NONE,
                                       !.op = NONE, !.res = NONE]
            ELSE obj' = [called EXCEPT !.raised = NONE, !.op = node_op(obj.self.action),
                                       !.res = IF res THEN "True" ELSE "False",
                                       !.ret = IF res THEN RES_OK ELSE RES_ERROR]
  /\ UNCHANGED <<lock, cluster, bindings, act, cancelled, dispatched, made>>

(* NodeAction.cancel, lines 829-830 *)
NodeAction_cancel ==
  /\ obj.self.class = "NodeAction"
  /\ obj' = [obj EXCEPT !.call = "cancel", !.arg = NONE, !.raised = NONE, !.ret = RES_OK,
                        !.node = NONE, !.op = NONE, !.res = NONE]
  /\ UNCHANGED <<lock, cluster, bindings, act, cancelled, dispatched, made>>

(* A call of self.store with keyword arguments: Action.store(self, context)
   takes its context and no other argument. *)
store_bind(keywords) == IF keywords = {"context"} THEN NONE ELSE "TypeError"

(* db_api.cluster_enable_policy / cluster_disable_policy(cluster_id, policy_id) *)
cluster_toggle_policy(all, policy_id, enabled) ==
  [i \in DOMAIN all |-> IF all[i].policy_id = policy_id
                          THEN [all[i] EXCEPT !.enabled = enabled] ELSE all[i]]

(* PolicyAction.execute, lines 859-885; policy_id is kwargs.get('policy_id').
   The first statement calls self.store with start_time and status. *)
PolicyAction_execute(policy_id) ==
  /\ obj.self.class = "PolicyAction"
  /\ LET called == [obj EXCEPT !.call = "execute", !.arg = NONE, !.ret = NONE] IN
     IF obj.self.action \notin PolicyAction_ACTIONS
       THEN /\ obj' = [called EXCEPT !.raised = NONE, !.ret = RES_ERROR]
            /\ UNCHANGED bindings
       ELSE IF store_bind({"start_time", "status"}) # NONE
         THEN /\ obj' = [called EXCEPT !.raised = store_bind({"start_time", "status"})]
              /\ UNCHANGED bindings
         ELSE /\ obj' = [called EXCEPT !.raised = NONE, !.ret = RES_OK,
                                       !.self.status = SUCCEEDED, !.db = SUCCEEDED]
              /\ bindings' =
                   IF obj.self.action = <<"POLICY", "ENABLE">>
                     THEN cluster_toggle_policy(bindings, policy_id, TRUE)
                   ELSE IF obj.self.action = <<"POLICY", "DISABLE">>
                     THEN cluster_toggle_policy(bindings, policy_id, FALSE)
                   ELSE bindings
  /\ UNCHANGED <<lock, cluster, act, cancelled, dispatched, made>>

(* PolicyAction.cancel, lines 887-890: the arguments of self.store are
   evaluated first, and self.CANCELLED is an attribute the class lacks. *)
PolicyAction_cancel ==
  /\ obj.self.class = "PolicyAction"
  /\ obj' = [obj EXCEPT !.call = "cancel", !.arg = NONE, !.raised = "AttributeError",
                        !.ret = NONE]
  /\ UNCHANGED <<lock, cluster, bindings, act, cancelled, dispatched, made>>

NextExecute ==
  \/ \E found, res \in BOOLEAN : NodeAction_execute(found, res)
  \/ NodeAction_cancel
  \/ \E policy_id \in {NoPolicy, 1, 2} : PolicyAction_execute(policy_id)
  \/ PolicyAction_cancel

(* The node and policy actions that are executed, as loaded from the store. *)
ExecuteVerbs == NodeAction_ACTIONS \cup PolicyAction_ACTIONS
ExecuteKwargs == [target : {"n1"}, cluster_id : {"c1"}, policy_id : {"p1"}, id : {"a1"},
                  status : {READY, RUNNING},
                  inputs : {{}, {"new_profile_id"}, {"cluster_id"}}, outputs : {{}}]

InitExecute ==
  /\ lock = NoAction
  /\ cluster \in {c \in InitClusters : c.status = "ACTIVE" /\ c.size = 1}
  /\ \E e1, e2 \in BOOLEAN :
       bindings = <<[policy_id |-> 1, enabled |-> e1], [policy_id |-> 2, enabled |-> e2]>>
  /\ act = [a \in Actions |-> InitAct]
  /\ cancelled = [a \in Actions |-> FALSE]
  /\ dispatched = <<>>
  /\ made = NoCall
  /\ \E action \in ExecuteVerbs, kwargs \in ExecuteKwargs :
       LET r == Construct_self("Action", "RequestContext", action, kwargs) IN
       /\ r.raised = NONE
       /\ obj = [NoObject EXCEPT !.self = r.self, !.db = r.self.status]

SpecExecute == InitExecute /\ [][NextExecute]_vars


(* ------------- three workers, one of which deletes the cluster --------- *)
NumDelete == 3      \* actions that may run against the cluster to be deleted

DeleteVerbs == {CLUSTER_CREATE, CLUSTER_UPDATE, CLUSTER_DELETE}

InitDelete ==
  /\ lock = NoAction
  /\ cluster \in {c \in InitClusters : c.size = 1}
  /\ bindings = <<>>
  /\ act = [a \in 1..NumDelete |-> InitAct]
  /\ cancelled = [a \in 1..NumDelete |-> FALSE]
  /\ dispatched = <<>>
  /\ made = NoCall
  /\ obj = NoObject

NextDelete ==
  \E a \in 1..NumDelete :
    \/ \E v \in DeleteVerbs : execute(a, v)
    \/ \E res \in BOOLEAN : do_create_lock(a, res)
    \/ do_create_spawn(a)
    \/ do_create_notify(a)
    \/ \E ready, timeout \in BOOLEAN : do_create_wait(a, ready, timeout)
    \/ \E res \in BOOLEAN : do_update_lock(a, res)
    \/ do_update_spawn(a)
    \/ do_update_notify(a)
    \/ \E ready, timeout \in BOOLEAN, inflight \in [Range(cluster.members) -> InFlight] :
         do_update_wait(a, ready, timeout, inflight)
    \/ do_delete_mark(a)
    \/ do_delete_lock(a)
    \/ \E timeout \in BOOLEAN : do_delete_poll(a, timeout)
    \/ do_delete_spawn(a)
    \/ do_delete_notify(a)
    \/ \E ready, timeout \in BOOLEAN : do_delete_wait(a, ready, timeout)
    \/ do_delete_release(a)

SpecDelete == InitDelete /\ [][NextDelete]_vars

(* ============================ properties =============================== *)
Done(a) == act[a].pc = "done"
Returned(a, code) == Done(a) /\ act[a].result = code
Occurrences(s, x) == Cardinality({i \in 1..Len(s) : s[i] = x})
Distinct(s) == \A i, j \in 1..Len(s) : i # j => s[i] # s[j]
TerminalStatus == {"ACTIVE", "ERROR", "UPDATE_CANCELLED"}
SpawningVerbs == {CLUSTER_CREATE, CLUSTER_UPDATE, CLUSTER_DELETE, CLUSTER_SCALE_DOWN}

(* Between a successful lock acquisition and the release. *)
InCritical(a) ==
  act[a].pc \in {"create_spawn", "create_notify", "create_wait",
                 "update_spawn", "update_notify", "update_wait",
                 "delete_spawn", "delete_notify", "delete_wait", "delete_release",
                 "policy_check", "scale_select", "scale_spawn", "scale_notify",
                 "scale_wait", "scale_finish"}

(* C1: an action that has returned OK, ERROR, CANCEL or TIMEOUT does not hold
   the cluster lock. *)
C1_LockUnheldAfterReturn ==
  \A a \in Actions :
    (Done(a) /\ act[a].result \in {RES_OK, RES_ERROR, RES_CANCEL, RES_TIMEOUT}) => lock # a

(* C2: no two actions are at the same time between their lock acquisition and
   their release, and an action that is there is the holder. *)
C2_OneHolder ==
  \A a, b \in Actions :
    /\ InCritical(a) => lock = a
    /\ (a # b /\ InCritical(a)) => ~InCritical(b)

C2_Witness ==
  \E a, b \in Actions : a # b /\ InCritical(a) /\ act[b].pc = "delete_poll" /\ act[b].polled

(* C3: every write of an action to the cluster's status or membership, and the
   durable delete, happens while the action holds the lock. *)
C3_WritesByHolderOnly ==
  \A a \in Actions : ~act[a].unlocked

(* C4: a create, update, delete or scale-down that returned an outcome code has
   set a terminal cluster status with a non-empty reason (or durably deleted
   the cluster). *)
C4_TerminalStatusAndReason ==
  \A a \in Actions :
    (Done(a) /\ act[a].verb \in SpawningVerbs /\ act[a].result \in RETURNS)
      => \/ act[a].last.status \in TerminalStatus /\ act[a].last.reason # ""
         \/ act[a].last.status = "DELETED"

(* C5: every child the dispatcher was notified of is stored and has its
   dependency edge. *)
C5_StoredAndLinkedBeforeNotify ==
  /\ NoId \notin Range(dispatched)
  /\ \A a \in Actions : \A i \in 1..act[a].sent :
       act[a].children[i].stored /\ act[a].children[i].dep

(* C6: a create that got past its notify loop has exactly cluster.size
   node-create children, each stored, linked to the parent and notified once;
   when it returned OK it has marked the cluster ACTIVE and released the lock. *)
C6_CreateSpawnsSize ==
  \A a \in Actions :
    /\ (act[a].verb = CLUSTER_CREATE /\ act[a].result \in {RES_OK, RES_CANCEL, RES_TIMEOUT})
         => act[a].sent = cluster.size
    /\ (act[a].verb = CLUSTER_CREATE /\ act[a].pc = "create_wait")
         => /\ Len(act[a].children) = cluster.size
            /\ act[a].sent = cluster.size
            /\ \A i \in 1..Len(act[a].children) :
                 LET child == act[a].children[i] IN
                 /\ child.verb = "NODE_CREATE" /\ child.stored /\ child.dep
                 /\ Occurrences(dispatched, child.id) = 1
                 /\ \A j \in 1..Len(act[a].children) :
                      i # j => child.target # act[a].children[j].target
    /\ (act[a].verb = CLUSTER_CREATE /\ Returned(a, RES_OK))
         => /\ act[a].last = [status |-> "ACTIVE", reason |-> "Cluster creation completed"]
            /\ lock # a

C6_Witness ==
  \E a \in Actions :
    act[a].verb = CLUSTER_CREATE /\ Returned(a, RES_OK) /\ act[a].sent >= 2

(* C7: when the BEFORE check names no candidates, scale-down selects
   min(count, number of members) pairwise distinct member ids and creates one
   node-delete child per selected id. *)
C7_SelectsCountDistinctMembers ==
  \A a \in Actions :
    (act[a].pc \in {"scale_spawn", "scale_notify", "scale_wait"}
       /\ act[a].data.candidates = <<>>)
      => /\ Len(act[a].todo) = Min(act[a].data.count, Len(cluster.members))
         /\ Distinct(act[a].todo)
         /\ Range(act[a].todo) \subseteq Range(cluster.members)
         /\ act[a].pc # "scale_spawn"
              => /\ Len(act[a].children) = Len(act[a].todo)
                 /\ \A i \in 1..Len(act[a].todo) :
                      /\ act[a].children[i].verb = "NODE_DELETE"
                      /\ act[a].children[i].target = act[a].todo[i]

C7_Witness ==
  \E a \in Actions :
    /\ act[a].pc = "scale_wait" /\ act[a].data.candidates = <<>>
    /\ act[a].data.count = 2 /\ Len(act[a].children) = 2

(* C8: with no candidates named, every subset of min(count, n) members is a
   selection the loop can make. *)
C8_EverySubsetSelectable ==
  \A a \in Actions :
    (act[a].pc = "scale_select" /\ act[a].ret # "False" /\ act[a].data.count > 0
       /\ act[a].data.candidates = <<>>)
      => LET nodes == cluster.members
             k == Min(act[a].data.count, Len(nodes))
         IN \A S \in SUBSET Range(nodes) :
              Cardinality(S) = k => \E c \in random_select(nodes, k, <<>>) : Range(c) = S

(* C9: RETRY is returned by a scale-down whose lock attempt was contested, and
   by nothing else; that scale-down has not polled, checked a policy, spawned
   or written, and its step leaves lock, cluster, associations, dispatcher and
   cancellation flags alone. *)
C9_RetryState ==
  \A a \in Actions :
    /\ Returned(a, RES_RETRY)
         => /\ act[a].verb = CLUSTER_SCALE_DOWN /\ act[a].contested
            /\ ~act[a].polled /\ ~act[a].checked
            /\ act[a].sent = 0 /\ ~act[a].wrote
    /\ (act[a].verb = CLUSTER_SCALE_DOWN /\ act[a].contested) => Returned(a, RES_RETRY)

C9_RetryStep ==
  \A a \in Actions :
    (act[a].pc = "scale_lock" /\ lock \notin {NoAction, a} /\ act'[a] # act[a])
      => /\ act'[a].pc = "done" /\ act'[a].result = RES_RETRY
         /\ UNCHANGED <<lock, cluster, bindings, cancelled, dispatched>>

C9_RetryOnlyOnContention == []C9_RetryState /\ [][C9_RetryStep]_vars

C9_Witness ==
  \E a \in Actions : Returned(a, RES_RETRY) /\ lock \notin {NoAction, a}

(* C10: a scale-down never returns CANCEL, whatever cancellation is requested. *)
C10_ScaleDownNotCancellable ==
  \A a \in Actions :
    (act[a].verb = CLUSTER_SCALE_DOWN /\ Done(a))
      => act[a].result \in {RES_RETRY, RES_ERROR, RES_TIMEOUT, RES_OK}

C10_Witness ==
  \E a \in Actions :
    act[a].verb = CLUSTER_SCALE_DOWN /\ cancelled[a] /\ Returned(a, RES_OK) /\ act[a].sent > 0

(* C11: a delete that finds the lock held asks the holder to cancel and polls;
   it spawns children and deletes the cluster only as the holder of the lock,
   and a poll that ends without the lock ends in TIMEOUT with the cluster
   marked ERROR. *)
C11_DeleteState ==
  \A a \in Actions :
    /\ (act[a].verb = CLUSTER_DELETE
          /\ act[a].pc \in {"delete_spawn", "delete_notify", "delete_wait", "delete_release"})
         => lock = a
    /\ (act[a].verb = CLUSTER_DELETE /\ act[a].pc \in {"delete_mark", "delete_lock", "delete_poll"})
         => (act[a].children = <<>> /\ act[a].sent = 0)
    /\ (act[a].verb = CLUSTER_DELETE /\ act[a].pc = "delete_poll") => act[a].contested
    /\ (act[a].verb = CLUSTER_DELETE /\ Returned(a, RES_TIMEOUT)) => act[a].last.status = "ERROR"

C11_DeleteStep ==
  \A a \in Actions :
    /\ (act[a].pc = "delete_lock" /\ lock \notin {NoAction, a} /\ act'[a] # act[a])
         => (cancelled'[lock] /\ act'[a].pc = "delete_poll" /\ lock' = lock)
    /\ (act[a].pc = "delete_poll" /\ act'[a].pc # "delete_poll")
         => \/ act'[a].pc = "delete_spawn" /\ lock = NoAction /\ lock' = a
            \/ /\ act'[a].pc = "done" /\ act'[a].result = RES_TIMEOUT
               /\ lock' = lock /\ lock # a
               /\ cluster'.status = "ERROR"
               /\ act'[a].sent = 0
    /\ (act[a].verb = CLUSTER_DELETE /\ cluster.exists /\ ~cluster'.exists /\ act'[a] # act[a])
         => (lock = a /\ act[a].pc = "delete_wait")

C11_DeleteWaitsForLock == []C11_DeleteState /\ [][C11_DeleteStep]_vars

C11_Witness ==
  \E a, b \in Actions :
    /\ a # b /\ cancelled[b] /\ Done(b)
    /\ act[a].verb = CLUSTER_DELETE /\ act[a].contested /\ act[a].polled
    /\ act[a].pc = "delete_wait" /\ act[a].sent > 0 /\ lock = a

(* The policy ids that have an association with the cluster. *)
Attached == {bindings[i].policy_id : i \in DOMAIN bindings}
SameTypeAttached(p) == \E q \in Attached : q # p /\ PolicyType(q) = PolicyType(p)

(* C12: attaching a policy that is not attached itself while another policy of
   its type is attached ends with the policy-type-conflict error and leaves
   the associations and the runtime policy list as they were.  (The case of
   a policy that is attached itself is the no-op of C13.) *)
C12_ConflictStep ==
  \A a \in DOMAIN act :
    (act[a].pc = "attach_check" /\ act'[a] # act[a]
       /\ act'[a].asked # NoPolicy /\ act'[a].asked \notin Attached
       /\ SameTypeAttached(act'[a].asked))
      => /\ act'[a].pc = "done" /\ act'[a].result = PolicyExists
         /\ bindings' = bindings /\ cluster' = cluster

C12_ConflictState ==
  \A a \in DOMAIN act :
    (Done(a) /\ act[a].result = PolicyExists)
      => (act[a].asked # NoPolicy /\ SameTypeAttached(act[a].asked))

C12_TypeConflictFails == []C12_ConflictState /\ [][C12_ConflictStep]_vars

C12_Witness ==
  \E a \in DOMAIN act :
    /\ Done(a) /\ act[a].result = PolicyExists /\ act[a].asked = 4
    /\ Attached = {1} /\ cluster.rt = <<1>>

(* C13: attaching a policy id that is attached returns OK and changes neither
   the associations nor the runtime policy list, whatever else is attached. *)
C13_ReattachStep ==
  \A a \in DOMAIN act :
    (act[a].pc = "attach_check" /\ act'[a] # act[a] /\ act'[a].asked \in Attached)
      => /\ act'[a].pc = "done" /\ act'[a].result = RES_OK
         /\ bindings' = bindings /\ cluster' = cluster

C13_ReattachIsNoOp == [][C13_ReattachStep]_vars

(* C14: the cluster has at most one enabled association per policy type. *)
C14_OneEnabledPerType ==
  \A i, j \in DOMAIN bindings :
    (i # j /\ bindings[i].enabled /\ bindings[j].enabled)
      => PolicyType(bindings[i].policy_id) # PolicyType(bindings[j].policy_id)

(* The enabled associations whose policy has <<phase, verb>> in its TARGET. *)
Matching(phase, verb) ==
  {i \in DOMAIN bindings :
     bindings[i].enabled /\ <<phase, verb>> \in PolicyTarget(bindings[i].policy_id)}

(* The phase of the check that the step of action a enters, NONE if none. *)
Entered(a) ==
  IF act[a].pc = "scale_lock" /\ act'[a].pc \notin {"scale_lock", "done"} THEN "BEFORE"
  ELSE IF act[a].pc = "scale_wait" /\ act'[a].pc \notin {"scale_wait", "done"} THEN "AFTER"
  ELSE NONE

(* C15: a check that finds no enabled association matching its target returns
   the default success data at once: no policy is evaluated, and associations,
   lock, dispatcher and cancellation flags stay as they are (the cluster too,
   but for the caller's own removal of the deleted nodes before AFTER). *)
C15_NoMatchStep ==
  \A a \in DOMAIN act :
    (Entered(a) # NONE /\ Matching(Entered(a), CLUSTER_SCALE_DOWN) = {})
      => /\ act'[a].pc = AfterCheck(Entered(a))
         /\ act'[a].ret = "data" /\ act'[a].data = EmptyData
         /\ act'[a].evals = <<>> /\ act'[a].checked = act[a].checked
         /\ bindings' = bindings /\ dispatched' = dispatched /\ cancelled' = cancelled
         /\ lock' = a
         /\ cluster' = IF Entered(a) = "BEFORE" THEN cluster
                        ELSE cluster_delete_nodes(cluster, act[a].todo)

C15_NoMatchState ==
  \A a \in DOMAIN act : act[a].pc = "policy_check" => act[a].plist # <<>>

C15_NoMatchReturnsDefault == []C15_NoMatchState /\ [][C15_NoMatchStep]_vars

C15_Witness ==
  \E a \in DOMAIN act :
    /\ act[a].pc = "scale_select" /\ act[a].plist = <<>> /\ act[a].ret = "data"
    /\ \E i \in DOMAIN bindings :
         ~bindings[i].enabled /\ <<"BEFORE", CLUSTER_SCALE_DOWN>> \in PolicyTarget(bindings[i].policy_id)

(* The evaluations evs are those of a pending queue served first in, first
   out: each evaluates the head, and a policy that answers retry goes to the
   tail. *)
RECURSIVE FifoOrder(_, _)
FifoOrder(pending, evs) ==
  IF evs = <<>> THEN TRUE
  ELSE /\ pending # <<>>
       /\ Head(evs)[1] = Head(pending)
       /\ FifoOrder(IF Head(evs)[2] = CHECK_RETRY THEN Append(Tail(pending), Head(pending))
                                                  ELSE Tail(pending),
                    Tail(evs))

(* C16: the evaluations of a check follow the first-in, first-out order of
   the list as built; with three matching policies of which the second
   answers retry once and everything else succeeds, the order is first,
   second, third, second. *)
C16_FifoRequeue ==
  \A a \in DOMAIN act :
    /\ FifoOrder(act[a].plist, act[a].evals)
    /\ (Len(act[a].plist) = 3 /\ Len(act[a].evals) = 4 /\ act[a].ret = "data"
          /\ act[a].evals[2] = <<act[a].plist[2], CHECK_RETRY>>
          /\ \A i \in {1, 3, 4} : act[a].evals[i][2] = CHECK_SUCCEED)
         => [i \in 1..4 |-> act[a].evals[i][1]]
              = <<act[a].plist[1], act[a].plist[2], act[a].plist[3], act[a].plist[2]>>

C16_Witness ==
  \E a \in DOMAIN act :
    /\ act[a].pc = "scale_select" /\ act[a].ret = "data" /\ act[a].plist = <<1, 2, 5>>
    /\ act[a].evals = <<<<1, CHECK_SUCCEED>>, <<2, CHECK_RETRY>>,
                         <<5, CHECK_SUCCEED>>, <<2, CHECK_SUCCEED>>>>

(* C17: a fail ends the check: nothing is evaluated after it and the caller
   gets False; a scale-down whose BEFORE check failed releases the lock and
   returns ERROR, having spawned nothing and written nothing. *)
C17_FailState ==
  \A a \in DOMAIN act :
    /\ \A i \in 1..Len(act[a].evals) :
         act[a].evals[i][2] = CHECK_FAIL
           => (i = Len(act[a].evals) /\ act[a].ret = "False"
                 /\ act[a].pc \in {"scale_select", "scale_finish"})
    /\ act[a].vetoed
         => /\ Returned(a, RES_ERROR) /\ lock # a
            /\ act[a].sent = 0 /\ ~act[a].wrote

C17_FailStep ==
  \A a \in DOMAIN act :
    /\ (act[a].pc = "policy_check" /\ act'[a] # act[a] /\ act'[a].data.result = CHECK_FAIL)
         => (act'[a].ret = "False" /\ act'[a].pc = AfterCheck(act[a].phase))
    /\ (act[a].pc = "scale_select" /\ act[a].ret = "False" /\ act'[a] # act[a])
         => /\ act'[a].pc = "done" /\ act'[a].result = RES_ERROR /\ act'[a].vetoed
            /\ lock = a /\ lock' = NoAction
            /\ cluster' = cluster /\ dispatched' = dispatched

C17_FailStopsPipeline == []C17_FailState /\ [][C17_FailStep]_vars

C17_Witness ==
  \E a \in DOMAIN act :
    /\ act[a].vetoed /\ Returned(a, RES_ERROR) /\ lock = NoAction
    /\ Cardinality(Matching("BEFORE", CLUSTER_SCALE_DOWN)) >= 2

(* C18: every policy check ends. *)
C18_PolicyCheckTerminates ==
  \A a \in 1..NumScale : (act[a].pc = "policy_check") ~> (act[a].pc # "policy_check")

(* The class whose verb set decides: the class asked for, or the one that
   Action chooses from the first word of the verb. *)
Selected(cls, action) ==
  IF cls # "Action" THEN cls
  ELSE IF Head(action) = "CLUSTER" THEN "ClusterAction"
  ELSE IF Head(action) = "NODE" THEN "NodeAction"
  ELSE IF Head(action) = "POLICY" THEN "PolicyAction"
  ELSE "CustomAction"

Called == made.cls # NONE

(* C19: the object created is of the selected class and its verb is one of
   that class's verbs; a verb outside them ends in ActionNotSupported. *)
C19_UnsupportedVerbFails ==
  Called =>
    LET S == Selected(made.cls, made.action) IN
    /\ made.class = S
    /\ made.raised = NONE => made.action \in ActionsOf(S)
    /\ made.action \notin ActionsOf(S) => made.raised = "ActionNotSupported"

(* C20: a supported verb without a target ends in ActionMissingTarget, and
   every object created has a target. *)
C20_MissingTargetFails ==
  Called =>
    /\ (made.action \in ActionsOf(Selected(made.cls, made.action)) /\ made.kwargs.target = None)
         => made.raised = "ActionMissingTarget"
    /\ made.raised = NONE => (made.target # None /\ made.kwargs.target # None)

C20_Witness ==
  /\ made.raised = "ActionMissingTarget" /\ made.class = "PolicyAction"
  /\ made.kwargs = [target |-> None, cluster_id |-> "c1", policy_id |-> "p1"]

(* C21: deserializing the map that serializing an action gives yields an
   action of the same variant with the same target, verb, inputs, outputs and
   status. *)
C21_RoundTrip ==
  obj.call = "from_dict" =>
    /\ obj.raised = NONE
    /\ obj.copy.class = obj.self.class
    /\ obj.copy.target = obj.self.target /\ obj.copy.action = obj.self.action
    /\ obj.copy.inputs = obj.self.inputs /\ obj.copy.outputs = obj.self.outputs
    /\ obj.copy.status = obj.self.status

(* C22: after store and set_status(s), with no write by another worker,
   get_status returns s. *)
C22_GetStatusReturnsSet ==
  (obj.call = "get_status" /\ obj.asked # NONE /\ ~obj.foreign) => obj.ret = obj.asked

(* The order of the statuses: INIT, WAITING, READY, RUNNING, then one of the
   three terminal statuses. *)
Rank(status) == CASE status = INIT -> 0 [] status = WAITING -> 1 [] status = READY -> 2
                  [] status = RUNNING -> 3 [] OTHER -> 4

(* C23: set_status moves the status one step forward along INIT, WAITING,
   READY, RUNNING, terminal, or leaves it; a terminal status never changes. *)
C23_StatusStep ==
  (obj'.call = "set_status" /\ obj' # obj /\ obj'.self.status # obj.self.status)
    => /\ Rank(obj.self.status) < 4
       /\ Rank(obj'.self.status) = Rank(obj.self.status) + 1

C23_StatusMovesForward == [][C23_StatusStep]_vars

(* C24: an action that returned CANCEL or TIMEOUT has left the cluster in
   status ERROR or UPDATE_CANCELLED: the last status it set is one of them. *)
C24_CancelTimeoutSetError ==
  \A a \in Actions :
    (Done(a) /\ act[a].result \in {RES_CANCEL, RES_TIMEOUT})
      => (act[a].wrote /\ act[a].last.status \in {"ERROR", "UPDATE_CANCELLED"})

WaitPcs == {"create_wait", "update_wait", "delete_poll", "delete_wait", "scale_wait"}

(* C25: an action that finds its deadline elapsed on an iteration of a poll
   loop returns TIMEOUT, and the cluster's status is ERROR when it returns. *)
C25_TimeoutState ==
  \A a \in Actions :
    act[a].timedout => (Returned(a, RES_TIMEOUT) /\ act[a].last.status = "ERROR")

C25_TimeoutStep ==
  \A a \in Actions :
    (~act[a].timedout /\ act'[a].timedout)
      => /\ act[a].pc \in WaitPcs
         /\ act'[a].pc = "done" /\ act'[a].result = RES_TIMEOUT
         /\ cluster'.status = "ERROR"

C25_TimeoutSetsError == []C25_TimeoutState /\ [][C25_TimeoutStep]_vars

C25_Witness ==
  \E a, b \in Actions :
    /\ a # b
    /\ act[a].verb = CLUSTER_DELETE /\ act[a].timedout /\ act[a].polled /\ Returned(a, RES_TIMEOUT)
    /\ act[b].verb = CLUSTER_UPDATE /\ act[b].pc = "update_wait" /\ lock = b
    /\ cluster.status = "ERROR"

(* C26: in the wait loops of create, update and delete an action that is
   cancelled while its parent is not READY ends in CANCEL, also when its
   deadline has elapsed, never in TIMEOUT; the cancelled create has marked
   the cluster ERROR and released the lock. *)
C26_CancelState ==
  \A a \in Actions :
    act[a].late
      => /\ Returned(a, RES_CANCEL) /\ ~act[a].timedout
         /\ act[a].verb \in {CLUSTER_CREATE, CLUSTER_UPDATE, CLUSTER_DELETE}

C26_CancelStep ==
  \A a \in Actions :
    /\ (act[a].pc \in {"create_wait", "update_wait", "delete_wait"} /\ cancelled[a]
          /\ act'[a] # act[a])
         => (act'[a].result # RES_TIMEOUT /\ ~act'[a].timedout)
    /\ (act[a].pc = "create_wait" /\ act'[a].result = RES_CANCEL)
         => (cancelled[a] /\ cluster'.status = "ERROR" /\ lock = a /\ lock' = NoAction)

C26_CancelBeforeTimeout == []C26_CancelState /\ [][C26_CancelStep]_vars

(* C27: the rollback of a cancelled update restores every member node, marks
   the cluster UPDATE_CANCELLED and releases the lock, and the update returns
   CANCEL. *)
C27_RollbackStep ==
  \A a \in Actions :
    (act[a].pc = "update_wait" /\ act'[a].pc = "done" /\ act'[a].result # RES_OK /\ cancelled[a])
      => /\ act'[a].result = RES_CANCEL
         /\ Range(act'[a].restored) = Range(cluster.members)
         /\ cluster'.status = "UPDATE_CANCELLED"
         /\ lock = a /\ lock' = NoAction

C27_RollbackRestoresAll == [][C27_RollbackStep]_vars

(* C28: a create or an update that finds the lock held by another action is
   rejected at once (create by a hard error, update by CANCEL): it has spawned
   nothing, polled nothing and written nothing, and its step leaves lock,
   cluster, associations, cancellation flags and dispatcher as they are. *)
C28_RejectState ==
  \A a \in Actions :
    (act[a].verb \in {CLUSTER_CREATE, CLUSTER_UPDATE} /\ act[a].contested)
      => /\ Done(a)
         /\ act[a].result = IF act[a].verb = CLUSTER_CREATE THEN RAISED ELSE RES_CANCEL
         /\ act[a].sent = 0 /\ ~act[a].polled /\ ~act[a].wrote /\ ~act[a].checked

C28_RejectStep ==
  \A a \in Actions :
    (act[a].pc \in {"create_lock", "update_lock"} /\ lock \notin {NoAction, a}
       /\ act'[a] # act[a])
      => /\ act'[a].pc = "done" /\ act'[a].contested
         /\ act[a].children = <<>>
         /\ UNCHANGED <<lock, cluster, bindings, cancelled, dispatched>>

C28_NonPreemptive == []C28_RejectState /\ [][C28_RejectStep]_vars

C28_Witness ==
  \E a, b \in Actions :
    /\ a # b /\ act[a].verb = CLUSTER_CREATE /\ Returned(a, RAISED) /\ act[a].contested
    /\ lock = b /\ InCritical(b) /\ ~cancelled[b]

(* C29: a delete marks the cluster DELETING before it first asks for the
   lock; it deletes the cluster durably only from its wait loop, holding the
   lock, and releases the lock after that; a delete that returned CANCEL or
   TIMEOUT has not deleted the cluster. *)
C29_DeleteState ==
  \A a \in Actions :
    act[a].verb = CLUSTER_DELETE
      => /\ act[a].pc \in {"delete_mark"} => (~act[a].wrote /\ ~act[a].contested /\ lock # a)
         /\ act[a].pc \in {"delete_lock", "delete_poll", "delete_spawn", "delete_notify",
                           "delete_wait"}
              => (act[a].wrote /\ act[a].last.status \in {"DELETING"})
         /\ act[a].pc = "delete_release" => (act[a].last.status = "DELETED" /\ lock = a)
         /\ (Done(a) /\ act[a].result \in {RES_CANCEL, RES_TIMEOUT})
              => act[a].last.status = "ERROR"
         /\ Returned(a, RES_OK) => (act[a].last.status = "DELETED" /\ lock # a)

C29_DeleteStep ==
  \A a \in Actions :
    /\ (act[a].pc = "delete_mark" /\ act'[a] # act[a])
         => (cluster'.status = "DELETING" /\ lock' = lock /\ act'[a].pc = "delete_lock")
    /\ (act[a].verb = CLUSTER_DELETE /\ act'[a].last.status = "DELETED"
          /\ act[a].last.status # "DELETED")
         => /\ act[a].pc = "delete_wait" /\ act'[a].pc = "delete_release"
            /\ lock = a /\ lock' = a
            /\ ~cluster'.exists
    /\ (act[a].pc = "delete_release" /\ act'[a] # act[a])
         => (act'[a].result = RES_OK /\ lock' = NoAction /\ cluster' = cluster)

C29_DeleteOrder == []C29_DeleteState /\ [][C29_DeleteStep]_vars

C29_Witness ==
  \E a \in Actions :
    /\ act[a].verb = CLUSTER_DELETE /\ act[a].pc = "delete_release"
    /\ act[a].contested /\ act[a].polled /\ act[a].sent > 0
    /\ lock = a /\ ~cluster.exists

(* C30: a scale-down removes the selected nodes from the membership on
   leaving its wait loop by READY, before any policy is evaluated AFTER; the
   AFTER check's result decides between ERROR and OK, both after the release
   of the lock; a timeout leaves the membership as it was. *)
C30_RemoveState ==
  \A a \in DOMAIN act :
    /\ act[a].pc \in {"scale_spawn", "scale_notify", "scale_wait"}
         => (cluster.members = act[a].nodes /\ ~act[a].wrote)
    /\ (act[a].phase = "AFTER" /\ act[a].pc \in {"policy_check", "scale_finish"})
         => /\ cluster.members = Without(act[a].nodes, Range(act[a].todo))
            /\ act[a].wrote
    /\ (act[a].verb = CLUSTER_SCALE_DOWN /\ act[a].timedout) => act[a].last.status = "ERROR"

C30_RemoveStep ==
  \A a \in DOMAIN act :
    /\ (act[a].pc = "scale_wait" /\ act'[a] # act[a])
         => \/ /\ act'[a].pc \in {"policy_check", "scale_finish"} /\ act'[a].phase = "AFTER"
               /\ act'[a].evals = <<>>
               /\ cluster'.members = Without(cluster.members, Range(act[a].todo))
               /\ lock' = lock
            \/ /\ act'[a].pc = "done" /\ act'[a].result = RES_TIMEOUT
               /\ cluster'.members = cluster.members
               /\ lock = a /\ lock' = NoAction
    /\ act[a].pc # "scale_wait" /\ act'[a] # act[a] => cluster'.members = cluster.members
    /\ (act[a].pc = "scale_finish" /\ act'[a] # act[a])
         => /\ act'[a].pc = "done"
            /\ act'[a].result = IF act[a].ret = "False" THEN RES_ERROR ELSE RES_OK
            /\ lock = a /\ lock' = NoAction
            /\ cluster' = cluster

C30_RemoveBeforeAfterCheck == []C30_RemoveState /\ [][C30_RemoveStep]_vars

C30_Witness ==
  \E a \in DOMAIN act :
    /\ act[a].verb = CLUSTER_SCALE_DOWN /\ Returned(a, RES_ERROR) /\ ~act[a].vetoed
    /\ act[a].wrote /\ act[a].sent = 2 /\ lock = NoAction
    /\ Len(cluster.members) = 0

(* C31: a policy action's execute ends with the action SUCCEEDED and returns
   OK, and its cancel ends with the action CANCELLED. *)
C31_PolicyExecuteSucceeds ==
  obj.self.class = "PolicyAction"
    => /\ obj.call = "execute"
            => (obj.raised = NONE /\ obj.ret = RES_OK /\ obj.self.status = SUCCEEDED)
       /\ obj.call = "cancel" => (obj.raised = NONE /\ obj.self.status = CANCELED)

(* C32: a policy action is constructed only with both a cluster id and a
   policy id: a missing cluster id raises ActionMissingTarget, a missing
   policy id (the cluster id given) raises ActionMissingPolicy. *)
C32_PolicyNeedsBothIds ==
  (made.class = "PolicyAction" /\ made.action \in PolicyAction_ACTIONS
     /\ made.kwargs.target # None)
    => /\ made.kwargs.cluster_id = None => made.raised = "ActionMissingTarget"
       /\ (made.kwargs.cluster_id # None /\ made.kwargs.policy_id = None)
            => made.raised = "ActionMissingPolicy"
       /\ made.raised = NONE
            <=> (made.kwargs.cluster_id # None /\ made.kwargs.policy_id # None)

C32_Witness ==
  /\ made.class = "PolicyAction"
  /\ made.kwargs = [target |-> "c1", cluster_id |-> "c1", policy_id |-> None]
  /\ made.raised = "ActionMissingPolicy"

(* The positions inside the handler of a verb. *)
HandlerPcs(v) ==
  CASE v = CLUSTER_CREATE -> {"create_lock", "create_spawn", "create_notify", "create_wait"}
    [] v = CLUSTER_UPDATE -> {"update_lock", "update_spawn", "update_notify", "update_wait"}
    [] v = CLUSTER_DELETE -> {"delete_mark", "delete_lock", "delete_poll", "delete_spawn",
                              "delete_notify", "delete_wait", "delete_release"}
    [] v = CLUSTER_SCALE_DOWN -> {"scale_lock", "policy_check", "scale_select", "scale_spawn",
                                  "scale_notify", "scale_wait", "scale_finish"}
    [] v = CLUSTER_ATTACH_POLICY -> {"attach_check", "attach_write"}
    [] OTHER -> {}

C33_ExecuteState ==
  \A a \in Actions : act[a].pc \notin {"idle", "done"} => act[a].pc \in HandlerPcs(act[a].verb)

C33_ExecuteStep ==
  \A a \in Actions :
    (act[a].pc = "idle" /\ act'[a].pc # "idle")
      => /\ UNCHANGED <<lock, cluster, bindings, cancelled, dispatched>>
         /\ act'[a].children = <<>> /\ act'[a].sent = 0 /\ ~act'[a].wrote
         /\ IF ~cluster.exists
              THEN Done(a)' /\ act'[a].result = RES_ERROR
              ELSE IF HandlerPcs(act'[a].verb) = {}
                THEN Done(a)'
                ELSE act'[a].pc \in HandlerPcs(act'[a].verb) /\ act'[a].result = NONE

(* C33: execute on a cluster that no longer exists returns ERROR without
   taking the lock, spawning, notifying or changing any state; otherwise it
   runs the handler of the action's verb and no other. *)
C33_MissingClusterIsError == []C33_ExecuteState /\ [][C33_ExecuteStep]_vars

C33_Witness ==
  \E a \in Actions :
    /\ ~cluster.exists
    /\ Returned(a, RES_ERROR) /\ act[a].verb = CLUSTER_UPDATE
    /\ ~act[a].wrote /\ act[a].sent = 0

(* The node-level operation the text names for each verb. *)
NodeOperation ==
  [v \in NodeAction_ACTIONS |->
     IF v = <<"NODE", "CREATE">> THEN "do_create"
     ELSE IF v = <<"NODE", "DELETE">> THEN "do_delete"
     ELSE IF v = <<"NODE", "UPDATE">> THEN "do_update"
     ELSE IF v = <<"NODE", "JOIN", "CLUSTER">> THEN "do_join"
     ELSE "do_leave"]

(* The execute of a node action that found its node called the operation of
   its verb and mapped the answer to OK or ERROR. *)
C34_Dispatched ==
  /\ obj.raised = NONE
  /\ obj.op = NodeOperation[obj.self.action]
  /\ obj.res \in {"True", "False"}
  /\ obj.ret = IF obj.res = "True" THEN RES_OK ELSE RES_ERROR

C34_JoinWithoutCluster ==
  obj.self.action = <<"NODE", "JOIN", "CLUSTER">> /\ "cluster_id" \notin obj.self.inputs

C34_CancelStep ==
  (obj'.call = "cancel" /\ obj.self.class = "NodeAction")
    => /\ obj'.ret = RES_OK /\ obj'.raised = NONE
       /\ obj'.self = obj.self /\ obj'.db = obj.db
       /\ UNCHANGED <<lock, cluster, bindings, act, cancelled, dispatched>>

C34_OriginalState ==
  (obj.self.class = "NodeAction" /\ obj.call = "execute")
    => IF obj.node = "missing" THEN obj.raised = "NotFound" /\ obj.op = NONE
                               ELSE C34_Dispatched

(* C34 as stated: a node action's execute raises NotFound when the node is
   missing and otherwise calls the node-level operation of its verb, returning
   OK on success and ERROR on failure; cancel returns OK and changes nothing. *)
C34_NodeExecuteDispatches == []C34_OriginalState /\ [][C34_CancelStep]_vars

C34_AmendedState ==
  (obj.self.class = "NodeAction" /\ obj.call = "execute")
    => IF obj.node = "missing" THEN obj.raised = "NotFound" /\ obj.op = NONE
       ELSE IF C34_JoinWithoutCluster
         THEN obj.raised = "ClusterNotSpecified" /\ obj.op = NONE /\ obj.ret = NONE
         ELSE C34_Dispatched

(* C34, amended: as above, except that a join-cluster action whose inputs
   name no cluster raises ClusterNotSpecified and calls no operation. *)
C34_NodeExecuteDispatchesOrRejects == []C34_AmendedState /\ [][C34_CancelStep]_vars

C34_Witness ==
  /\ obj.self.class = "NodeAction" /\ obj.call = "execute" /\ obj.node = "found"
  /\ obj.self.action = <<"NODE", "JOIN", "CLUSTER">> /\ "cluster_id" \in obj.self.inputs
  /\ obj.op = "do_join" /\ obj.res = "False" /\ obj.ret = RES_ERROR

(* C35: a child for which the dispatcher was notified has READY as its
   persisted status. *)
C35_NotifiedChildIsReady ==
  \A a \in Actions :
    \A i \in 1..act[a].sent :
      i <= Len(act[a].children) => act[a].children[i].db = READY

(* C36: an action that has entered a polling loop eventually returns; here
   for the wait loop of scale-down, under fair scheduling of the worker. *)
C36_PollingLoopsReturn ==
  \A a \in 1..NumScale : (act[a].pc = "scale_wait") ~> Done(a)

(* C37: an update that left its wait loop because it was cancelled has
   finished the rollback, whatever the state of the node actions was: it
   returned CANCEL, the last status it set is UPDATE_CANCELLED and it does not
   hold the cluster lock. *)
C37_RollbackSurvivesRace ==
  \A a \in Actions :
    (act[a].verb = CLUSTER_UPDATE /\ Done(a) /\ ~act[a].contested
       /\ act[a].result \notin {RES_OK, RES_ERROR, RES_TIMEOUT})
      => /\ act[a].result = RES_CANCEL
         /\ act[a].last.status = "UPDATE_CANCELLED"
         /\ lock # a

C38_ReleaseState ==
  \A a \in Actions :
    /\ ~act[a].stray
    /\ act[a].freed <= act[a].took
    /\ lock = a => act[a].freed < act[a].took
    /\ act[a].verb \in {CLUSTER_ATTACH_POLICY, CLUSTER_SCALE_UP} => act[a].freed = 0

C38_ReleaseStep ==
  /\ \A a \in Actions : act'[a].freed # act[a].freed
       => /\ act'[a].freed = act[a].freed + 1
          /\ lock = a \/ (lock = NoAction /\ act'[a].took = act[a].took + 1)
          /\ lock' = NoAction
  /\ (lock # NoAction /\ lock' # lock) => act'[lock].freed = act[lock].freed + 1

(* C38: an action calls cluster_lock_release only while it holds the lock and
   at most once for each acquisition; the lock of an action is freed by no
   step but a release call of that action. *)
C38_ReleaseOnlyOwnLock == []C38_ReleaseState /\ [][C38_ReleaseStep]_vars

C38_Witness ==
  \E a, b \in Actions :
    /\ Returned(a, RES_CANCEL) /\ act[a].verb = CLUSTER_CREATE
    /\ act[a].took = 1 /\ act[a].freed = 1
    /\ act[b].verb = CLUSTER_DELETE /\ lock = b /\ act[b].polled
    /\ act[b].took = 1 /\ act[b].freed = 0

C39_CancelStep ==
  /\ \A a \in 1..NumDelete :
       (act[a].pc = "delete_lock" /\ act'[a].pc = "delete_poll")
         => /\ lock \notin {NoAction, a}
            /\ cancelled' = [cancelled EXCEPT ![lock] = TRUE]
  /\ cancelled' # cancelled
       => \E a \in 1..NumDelete : act[a].pc = "delete_lock" /\ act'[a].pc = "delete_poll"

C39_CancelState ==
  \A b \in 1..NumDelete :
    cancelled[b]
      => /\ act[b].took >= 1
         /\ \E a \in 1..NumDelete :
              a # b /\ act[a].verb = CLUSTER_DELETE /\ act[a].contested

(* C39: a delete asks one action to cancel, the holder that its first
   cluster_lock_create answered, in that step and in no other: an action that
   gets the lock while the delete polls is not asked. *)
C39_OneCancelRequest == []C39_CancelState /\ [][C39_CancelStep]_vars

C39_Witness ==
  \E a, b, c \in 1..NumDelete :
    /\ a # b /\ b # c /\ a # c
    /\ act[a].pc = "delete_poll" /\ act[a].polled
    /\ cancelled[b] /\ Done(b)
    /\ lock = c /\ ~cancelled[c] /\ act[c].pc \in {"create_wait", "update_wait"}

(* C40: a scale-down has no more node-delete children than the removal count
   that its BEFORE check answered. *)
C40_ChildrenWithinCount ==
  \A a \in 1..NumScale :
    act[a].pc \in {"scale_spawn", "scale_notify", "scale_wait"}
      => Len(act[a].children) <= act[a].data.count
====
